---- MODULE Spec2Model ----
(***************************************************************************)
(* A model of the vscode-zotero-cite extension: the BibTeX duplicate       *)
(* detector (parseBibTeX, compareEntries, detectDuplicates and the two     *)
(* filters), the .bib file manager (parseBibFile, appendEntries) and the   *)
(* citation workflow handleTriggerDetected that drives them.               *)
(*                                                                         *)
(* Text is a sequence of one-character strings, indexed from 1; every      *)
(* regular expression of the source is modelled by the scan it performs.   *)
(***************************************************************************)
EXTENDS Integers, Sequences, FiniteSets, TLC

\* ------------------------------------------------------------------------
\* Characters and the character classes of the regular expressions
\* ------------------------------------------------------------------------

LowerLetters ==
  <<"a","b","c","d","e","f","g","h","i","j","k","l","m",
    "n","o","p","q","r","s","t","u","v","w","x","y","z">>

UpperLetters ==
  <<"A","B","C","D","E","F","G","H","I","J","K","L","M",
    "N","O","P","Q","R","S","T","U","V","W","X","Y","Z">>

Digits ==
  {"0","1","2","3","4","5","6","7","8","9"}

\* \w of a JavaScript regular expression without the u flag
WordChars ==
  {LowerLetters[i] : i \in 1..26} \cup {UpperLetters[i] : i \in 1..26}
    \cup Digits \cup {"_"}

\* \s, restricted to the white space the texts of the model contain
SpaceChars ==
  {" ", "\t", "\n", "\r"}

\* String.prototype.toLowerCase on one character
LowerChar(c) ==
  IF \E i \in 1..26 : UpperLetters[i] = c
    THEN LowerLetters[CHOOSE i \in 1..26 : UpperLetters[i] = c]
    ELSE c

toLowerCase(s) ==
  [i \in 1..Len(s) |-> LowerChar(s[i])]

\* binds the value of e before F is applied to it
Let1(e, F(_)) ==
  CHOOSE r \in {F(v) : v \in {e}} : TRUE

\* a loop over seq[lo..hi], in order: st is the state before the loop and
\* Step(x, st) the state after the turn for x.  The range is cut in halves to
\* keep the evaluation shallow; the turns are taken from left to right.
RECURSIVE FoldRange(_, _, _, _, _)
FoldRange(Step(_, _), st, seq, lo, hi) ==
  IF lo > hi THEN st
  ELSE IF lo = hi THEN Step(seq[lo], st)
  ELSE Let1(FoldRange(Step, st, seq, lo, (lo + hi) \div 2),
            LAMBDA mid : FoldRange(Step, mid, seq, ((lo + hi) \div 2) + 1, hi))

\* a while loop of at most n turns: Step(st) is the state after one turn and
\* leaves the state of a loop that has ended as it is
RECURSIVE Repeat(_, _, _)
Repeat(Step(_), st, n) ==
  IF n <= 0 THEN st
  ELSE IF n = 1 THEN Step(st)
  ELSE Let1(Repeat(Step, st, n \div 2),
            LAMBDA mid : Repeat(Step, mid, n - (n \div 2)))

\* 1, 2, ..., n
Indices(n) ==
  [i \in 1..n |-> i]

\* the number of characters c in s
CountOf(s, c) ==
  Len(SelectSeq(s, LAMBDA x : x = c))

\* the least j in lo..hi with P(j), hi + 1 when there is none: the index a
\* left-to-right scan stops at
FirstIndex(lo, hi, P(_)) ==
  CHOOSE j \in lo..(hi + 1) :
    /\ j = hi + 1 \/ P(j)
    /\ \A k \in lo..(j - 1) : ~P(k)

\* first index >= i whose character is outside S (Len(s)+1 when there is none)
SkipIn(s, i, S) ==
  IF i > Len(s) THEN i ELSE FirstIndex(i, Len(s), LAMBDA j : s[j] \notin S)

\* first index >= i whose character is in S (Len(s)+1 when there is none)
SkipNotIn(s, i, S) ==
  IF i > Len(s) THEN i ELSE FirstIndex(i, Len(s), LAMBDA j : s[j] \in S)

\* last index <= i whose character is outside S (0 when there is none)
BackIn(s, i, S) ==
  IF i < 1 THEN i
  ELSE CHOOSE j \in 0..i :
         /\ j = 0 \/ s[j] \notin S
         /\ \A k \in (j + 1)..i : s[k] \in S

\* String.prototype.trim
trim(s) ==
  SubSeq(s, SkipIn(s, 1, SpaceChars), BackIn(s, Len(s), SpaceChars))

\* s contains t at index i
MatchAt(s, t, i) ==
  /\ i >= 1
  /\ i + Len(t) - 1 <= Len(s)
  /\ \A k \in 1..Len(t) : s[i + k - 1] = t[k]

\* String.prototype.includes, and the index of the first occurrence (0: none)
Occurs(t, s) ==
  \E i \in 1..(Len(s) - Len(t) + 1) : MatchAt(s, t, i)

IsPrefix(t, s) ==
  Len(t) <= Len(s) /\ SubSeq(s, 1, Len(t)) = t

endsWith(s, t) ==
  Len(t) <= Len(s) /\ SubSeq(s, Len(s) - Len(t) + 1, Len(s)) = t

\* Array.prototype.join
join(parts, sep) ==
  IF Len(parts) = 0 THEN <<>>
  ELSE FoldRange(LAMBDA part, text : text \o sep \o part,
                 parts[1], parts, 2, Len(parts))

NL == <<"\n">>

NLNL == <<"\n", "\n">>

\* ------------------------------------------------------------------------
\* DuplicateDetector.parseBibTeX
\* ------------------------------------------------------------------------

\* Map.get of an absent key
Undefined == <<"undefined">>

FieldGet(fields, name) ==
  IF name \in DOMAIN fields THEN fields[name] ELSE Undefined

\* fields.get(name) || ''
FieldOrEmpty(fields, name) ==
  IF name \in DOMAIN fields THEN fields[name] ELSE <<>>

FieldSet(fields, name, value) ==
  [n \in (DOMAIN fields) \cup {name} |-> IF n = name THEN value ELSE fields[n]]

NoFields == [n \in {} |-> <<>>]

\* \s*(?:,|$) at index i of f: the index after the match, 0 when it fails
FieldTerminator(f, i) ==
  Let1(SkipIn(f, i, SpaceChars), LAMBDA j :
    IF j > Len(f) THEN j
    ELSE IF f[j] = "," THEN j + 1
    ELSE 0)

\* (.*?)[}"]\s*(?:,|$) from index r: the index of the closing character the
\* lazy quantifier stops at, 0 when no closing character is followed by a
\* terminator
FieldValueEnd(f, r) ==
  Let1(IF r > Len(f) THEN r
       ELSE FirstIndex(r, Len(f),
                       LAMBDA j : /\ f[j] \in {"}", "\""}
                                  /\ FieldTerminator(f, j + 1) # 0),
       LAMBDA x : IF x > Len(f) THEN 0 ELSE x)

\* fieldPattern.exec finds no match at an index
NoFieldMatch ==
  [ok |-> FALSE, name |-> <<>>, value |-> <<>>, next |-> 0]

\* fieldPattern /(\w+)\s*=\s*[{"](.*?)[}"]\s*(?:,|$)/gs matched at index p:
\* n1 ends the name, e is the place of the =, o of the opening character and
\* r of the closing one
FieldMatchAt(f, p) ==
  Let1(SkipIn(f, p, WordChars), LAMBDA n1 :
    IF n1 = p THEN NoFieldMatch
    ELSE Let1(SkipIn(f, n1, SpaceChars), LAMBDA e :
      IF e > Len(f) \/ f[e] # "=" THEN NoFieldMatch
      ELSE Let1(SkipIn(f, e + 1, SpaceChars), LAMBDA o :
        IF o > Len(f) \/ f[o] \notin {"{", "\""} THEN NoFieldMatch
        ELSE Let1(FieldValueEnd(f, o + 1), LAMBDA r :
          IF r = 0 THEN NoFieldMatch
          ELSE [ok    |-> TRUE,
                name  |-> toLowerCase(SubSeq(f, p, n1 - 1)),
                value |-> trim(SubSeq(f, o + 1, r - 1)),
                next  |-> FieldTerminator(f, r + 1)]))))

\* one turn of the while loop over fieldPattern.exec(fieldsText): st.p is
\* lastIndex, w the index of the leftmost match
ParseFieldsStep(f, st) ==
  IF st.done THEN st
  ELSE IF st.p > Len(f) THEN [st EXCEPT !.done = TRUE]
  ELSE Let1(FirstIndex(st.p, Len(f), LAMBDA j : FieldMatchAt(f, j).ok), LAMBDA w :
    IF w > Len(f) THEN [st EXCEPT !.done = TRUE]
    ELSE Let1(FieldMatchAt(f, w), LAMBDA m :
      [p |-> m.next,
       fields |-> FieldSet(st.fields, m.name, m.value),
       done |-> FALSE]))

\* the while loop over fieldPattern.exec(fieldsText); every match holds an =
ParseFields(f) ==
  Repeat(LAMBDA st : ParseFieldsStep(f, st),
         [p |-> 1, fields |-> NoFields, done |-> FALSE],
         CountOf(f, "=") + 1).fields

\* the index where the run of newlines that ends the text starts
TrailingNewlines(s) ==
  BackIn(s, Len(s), {"\n"}) + 1

\* the end of an entry taken before all the newlines that precede the next
\* @, as (?=\n+@|\n*$) would
EntryEndBeforeNewlines(s, q, tn) ==
  Let1(IF q >= tn THEN q
       ELSE FirstIndex(q, tn - 1,
                       LAMBDA j : \/ s[j] = "@"
                                  \/ s[j] = "\n" /\ j + 1 <= Len(s) /\ s[j + 1] = "@"),
       LAMBDA x : IF x < tn /\ s[x] = "@" THEN 0
                  ELSE IF BackIn(s, x - 1, {"\n"}) + 1 > q
                    THEN BackIn(s, x - 1, {"\n"}) + 1
                    ELSE q)

\* ([^@]*?)(?=\n@|\n*$) from index q: the index the lazy quantifier stops at
\* (the match ends before it), 0 when an @ comes first
EntryEnd(s, q, tn) ==
  Let1(IF q >= tn THEN q
       ELSE FirstIndex(q, tn - 1,
                       LAMBDA j : \/ s[j] = "@"
                                  \/ s[j] = "\n" /\ j + 1 <= Len(s) /\ s[j + 1] = "@"),
       LAMBDA x : IF x < tn /\ s[x] = "@" THEN 0 ELSE x)

\* entryPattern.exec finds no match at an index
NoEntryMatch ==
  [ok |-> FALSE, next |-> 0,
   entry |-> [key |-> <<>>, type |-> <<>>, fields |-> NoFields, rawText |-> <<>>]]

\* entryPattern /@(\w+)\s*\{\s*([^,\s]+)\s*,([^@]*?)(?=\n@|\n*$)/gs at
\* index p: t ends the type, b is the place of the brace, k0 and k1 bound
\* the key, c is the place of the comma and q ends the match
EntryMatchAt(s, p, tn) ==
  IF s[p] # "@" THEN NoEntryMatch
  ELSE Let1(SkipIn(s, p + 1, WordChars), LAMBDA t :
    IF t = p + 1 THEN NoEntryMatch
    ELSE Let1(SkipIn(s, t, SpaceChars), LAMBDA b :
      IF b > Len(s) \/ s[b] # "{" THEN NoEntryMatch
      ELSE Let1(SkipIn(s, b + 1, SpaceChars), LAMBDA k0 :
        Let1(SkipNotIn(s, k0, SpaceChars \cup {","}), LAMBDA k1 :
          IF k1 = k0 THEN NoEntryMatch
          ELSE Let1(SkipIn(s, k1, SpaceChars), LAMBDA c :
            IF c > Len(s) \/ s[c] # "," THEN NoEntryMatch
            ELSE Let1(EntryEnd(s, c + 1, tn), LAMBDA q :
              IF q = 0 THEN NoEntryMatch
              ELSE [ok |-> TRUE, next |-> q,
                    entry |-> [key     |-> trim(SubSeq(s, k0, k1 - 1)),
                               type    |-> toLowerCase(SubSeq(s, p + 1, t - 1)),
                               fields  |-> ParseFields(SubSeq(s, c + 1, q - 1)),
                               rawText |-> SubSeq(s, p, q - 1)]]))))))

\* one turn of the while loop over entryPattern.exec(bibtex): st.p is
\* lastIndex, a the index of the leftmost match
ParseEntriesStep(s, tn, st) ==
  IF st.done THEN st
  ELSE IF st.p > Len(s) THEN [st EXCEPT !.done = TRUE]
  ELSE Let1(FirstIndex(st.p, Len(s), LAMBDA j : EntryMatchAt(s, j, tn).ok), LAMBDA a :
    IF a > Len(s) THEN [st EXCEPT !.done = TRUE]
    ELSE Let1(EntryMatchAt(s, a, tn), LAMBDA m :
      [p |-> m.next, entries |-> Append(st.entries, m.entry), done |-> FALSE]))

\* parseBibTeX: the while loop over entryPattern.exec(bibtex); every match
\* holds an @
parseBibTeX(bibtex) ==
  Repeat(LAMBDA st : ParseEntriesStep(bibtex, TrailingNewlines(bibtex), st),
         [p |-> 1, entries |-> <<>>, done |-> FALSE],
         CountOf(bibtex, "@") + 1).entries

\* ------------------------------------------------------------------------
\* DuplicateDetector: normalisation and similarity
\* ------------------------------------------------------------------------

\* .replace(/\s+/g, ' '): each run of white space becomes one space
CollapseSpaces(s) ==
  Let1(SelectSeq([i \in 1..Len(s) |-> i],
                 LAMBDA i : s[i] \notin SpaceChars \/ i = 1
                              \/ s[i - 1] \notin SpaceChars),
       LAMBDA kept : [k \in 1..Len(kept) |->
                        IF s[kept[k]] \in SpaceChars THEN " " ELSE s[kept[k]]])

\* .replace(/[^\w\s]/g, '')
RemovePunctuation(s) ==
  SelectSeq(s, LAMBDA c : c \in WordChars \cup SpaceChars)

normalizeTitle(title) ==
  LET lower   == toLowerCase(title)
      noLatex == SelectSeq(lower, LAMBDA c : c \notin {"{", "}", "\\"})
  IN  trim(CollapseSpaces(RemovePunctuation(noLatex)))

\* /\s+and\s+/ matched at index j: the index after the match, 0 when it fails
AndMatchEnd(s, j) ==
  IF s[j] \notin SpaceChars THEN 0
  ELSE Let1(SkipIn(s, j, SpaceChars), LAMBDA a :
    IF ~MatchAt(s, <<"a", "n", "d">>, a) THEN 0
    ELSE Let1(SkipIn(s, a + 3, SpaceChars), LAMBDA b :
      IF b > a + 3 THEN b ELSE 0))

\* one turn of .replace(/\s+and\s+/g, ' '): st.p is where the scan stands,
\* st.text what has been produced, w the index of the leftmost match
ReplaceAndStep(s, st) ==
  IF st.done THEN st
  ELSE Let1(IF st.p > Len(s) THEN st.p
            ELSE FirstIndex(st.p, Len(s), LAMBDA j : AndMatchEnd(s, j) # 0),
            LAMBDA w :
    IF w > Len(s)
      THEN [p |-> w, text |-> st.text \o SubSeq(s, st.p, Len(s)), done |-> TRUE]
      ELSE [p |-> AndMatchEnd(s, w),
            text |-> st.text \o SubSeq(s, st.p, w - 1) \o <<" ">>,
            done |-> FALSE])

\* .replace(/\s+and\s+/g, ' '); a match holds five characters or more
ReplaceAnd(s) ==
  Repeat(LAMBDA st : ReplaceAndStep(s, st),
         [p |-> 1, text |-> <<>>, done |-> FALSE],
         (Len(s) \div 5) + 1).text

normalizeAuthor(author) ==
  LET lower == toLowerCase(author)
      noAnd == ReplaceAnd(lower)
  IN  trim(CollapseSpaces(RemovePunctuation(noAnd)))

Min3(a, b, c) ==
  IF a <= b /\ a <= c THEN a ELSE IF b <= c THEN b ELSE c

\* a cell of the matrix with a substitution that costs 2
LevCellSubstitutionTwo(str1, ch, prev, j, row) ==
  Append(row,
         IF ch = str1[j]
           THEN prev[j]
           ELSE Min3(prev[j] + 2, row[j] + 1, prev[j + 1] + 1))

\* the body of the inner loop of levenshteinDistance: row holds
\* matrix[i][0..j-1] at indices 1..j, prev is matrix[i - 1] and ch is
\* str2.charAt(i - 1); the result holds matrix[i][j] too
LevCell(str1, ch, prev, j, row) ==
  Append(row,
         IF ch = str1[j]
           THEN prev[j]
           ELSE Min3(prev[j] + 1, row[j] + 1, prev[j + 1] + 1))

\* the inner loop of levenshteinDistance: row i of the matrix
LevRow(str1, ch, prev, i) ==
  FoldRange(LAMBDA j, row : LevCell(str1, ch, prev, j, row),
            <<i>>, Indices(Len(str1)), 1, Len(str1))

\* the loops of levenshteinDistance; a row holds matrix[i][j] at index j + 1
levenshteinDistance(str1, str2) ==
  FoldRange(LAMBDA i, prev : LevRow(str1, str2[i], prev, i),
            [j \in 1..(Len(str1) + 1) |-> j - 1],
            Indices(Len(str2)), 1, Len(str2))[Len(str1) + 1]

Max(a, b) == IF a >= b THEN a ELSE b

\* the similarity with the distance divided by the length of the first string
calculateSimilarityByFirstLength(str1, str2) ==
  IF str1 = str2 THEN [num |-> 1, den |-> 1]
  ELSE IF Len(str1) = 0 \/ Len(str2) = 0 THEN [num |-> 0, den |-> 1]
  ELSE [num |-> Len(str1) - levenshteinDistance(str1, str2),
        den |-> Len(str1)]

\* the similarity with the distance divided by the length of the shorter
\* string
calculateSimilarityByShorterLength(str1, str2) ==
  IF str1 = str2 THEN [num |-> 1, den |-> 1]
  ELSE IF Len(str1) = 0 \/ Len(str2) = 0 THEN [num |-> 0, den |-> 1]
  ELSE LET minLength == IF Len(str1) <= Len(str2) THEN Len(str1) ELSE Len(str2)
       IN  [num |-> minLength - levenshteinDistance(str1, str2),
            den |-> minLength]

\* the similarity is the exact ratio num / den; the double the code computes
\* compares with 0.85 and 0.8 as this ratio does
calculateSimilarity(str1, str2) ==
  IF str1 = str2 THEN [num |-> 1, den |-> 1]
  ELSE IF Len(str1) = 0 \/ Len(str2) = 0 THEN [num |-> 0, den |-> 1]
  ELSE LET maxLength == Max(Len(str1), Len(str2))
       IN  [num |-> maxLength - levenshteinDistance(str1, str2),
            den |-> maxLength]

\* sim > p / q
SimGreater(sim, p, q) ==
  sim.num * q > p * sim.den

TitleThresholdNum == 85

AuthorThresholdNum == 80

ThresholdDen == 100

\* ------------------------------------------------------------------------
\* DuplicateDetector.compareEntries and detectDuplicates
\* ------------------------------------------------------------------------

FDoi == <<"d", "o", "i">>

FTitle == <<"t", "i", "t", "l", "e">>

FAuthor == <<"a", "u", "t", "h", "o", "r">>

FYear == <<"y", "e", "a", "r">>

One == [num |-> 1, den |-> 1]

NoEntry ==
  [key |-> <<>>, type |-> <<>>, fields |-> NoFields, rawText |-> <<>>]

\* the null result of compareEntries
NoMatch ==
  [newEntry |-> NoEntry, existingEntry |-> NoEntry, matchType |-> "null",
   similarity |-> [num |-> 0, den |-> 1]]

Match(newEntry, existingEntry, matchType, similarity) ==
  [newEntry |-> newEntry, existingEntry |-> existingEntry,
   matchType |-> matchType, similarity |-> similarity]

\* the DOI of an entry as it is written, letter case kept
DoiOfAsWritten(entry) ==
  IF FDoi \in DOMAIN entry.fields
    THEN entry.fields[FDoi]
    ELSE Undefined

\* fields.get('doi')?.toLowerCase()
DoiOf(entry) ==
  IF FDoi \in DOMAIN entry.fields
    THEN toLowerCase(entry.fields[FDoi])
    ELSE Undefined

\* lines 109-112: newDOI && existingDOI && newDOI === existingDOI
DoiMatches(newEntry, existingEntry) ==
  Let1(DoiOf(newEntry), LAMBDA newDOI :
    Let1(DoiOf(existingEntry), LAMBDA existingDOI :
      /\ newDOI # Undefined /\ newDOI # <<>>
      /\ existingDOI # Undefined /\ existingDOI # <<>>
      /\ newDOI = existingDOI))

\* lines 123-138: the title match of the two entries, NoMatch when the
\* titles do not match
TitleMatch(newEntry, existingEntry) ==
  Let1(normalizeTitle(FieldOrEmpty(newEntry.fields, FTitle)), LAMBDA newTitle :
    Let1(normalizeTitle(FieldOrEmpty(existingEntry.fields, FTitle)),
         LAMBDA existingTitle :
      IF newTitle # <<>> /\ existingTitle # <<>>
        THEN Let1(calculateSimilarity(newTitle, existingTitle),
                  LAMBDA titleSimilarity :
               IF SimGreater(titleSimilarity, TitleThresholdNum, ThresholdDen)
                 THEN Match(newEntry, existingEntry, "title", titleSimilarity)
                 ELSE NoMatch)
        ELSE NoMatch))

\* the author and year match with a threshold of 0.60 on the similarity
AuthorYearMatchAboveSixTenths(newEntry, existingEntry) ==
  Let1(normalizeAuthor(FieldOrEmpty(newEntry.fields, FAuthor)), LAMBDA newAuthor :
    Let1(normalizeAuthor(FieldOrEmpty(existingEntry.fields, FAuthor)),
         LAMBDA existingAuthor :
      IF /\ newAuthor # <<>> /\ existingAuthor # <<>>
         /\ FieldGet(newEntry.fields, FYear) = FieldGet(existingEntry.fields, FYear)
        THEN Let1(calculateSimilarity(newAuthor, existingAuthor),
                  LAMBDA authorSimilarity :
               IF SimGreater(authorSimilarity, 60, ThresholdDen)
                 THEN Match(newEntry, existingEntry, "author-year", authorSimilarity)
                 ELSE NoMatch)
        ELSE NoMatch))

\* lines 141-158: the author and year match of the two entries, NoMatch when
\* there is none
AuthorYearMatch(newEntry, existingEntry) ==
  Let1(normalizeAuthor(FieldOrEmpty(newEntry.fields, FAuthor)), LAMBDA newAuthor :
    Let1(normalizeAuthor(FieldOrEmpty(existingEntry.fields, FAuthor)),
         LAMBDA existingAuthor :
      IF /\ newAuthor # <<>> /\ existingAuthor # <<>>
         /\ FieldGet(newEntry.fields, FYear) = FieldGet(existingEntry.fields, FYear)
        THEN Let1(calculateSimilarity(newAuthor, existingAuthor),
                  LAMBDA authorSimilarity :
               IF SimGreater(authorSimilarity, AuthorThresholdNum, ThresholdDen)
                 THEN Match(newEntry, existingEntry, "author-year", authorSimilarity)
                 ELSE NoMatch)
        ELSE NoMatch))

\* compareEntries with the title compared before the DOI
compareEntriesTitleFirst(newEntry, existingEntry) ==
  IF newEntry.key = existingEntry.key
    THEN Match(newEntry, existingEntry, "key", One)
  ELSE Let1(TitleMatch(newEntry, existingEntry), LAMBDA titleMatch :
         IF titleMatch # NoMatch THEN titleMatch
         ELSE IF DoiMatches(newEntry, existingEntry)
           THEN Match(newEntry, existingEntry, "doi", One)
         ELSE AuthorYearMatch(newEntry, existingEntry))

compareEntries(newEntry, existingEntry) ==
  IF newEntry.key = existingEntry.key
    THEN Match(newEntry, existingEntry, "key", One)
  ELSE IF DoiMatches(newEntry, existingEntry)
    THEN Match(newEntry, existingEntry, "doi", One)
  ELSE Let1(TitleMatch(newEntry, existingEntry), LAMBDA titleMatch :
         IF titleMatch # NoMatch THEN titleMatch
         ELSE AuthorYearMatch(newEntry, existingEntry))

\* the body of the inner for loop of detectDuplicates
DetectStep(newEntry, existingEntry, duplicates) ==
  Let1(compareEntries(newEntry, existingEntry), LAMBDA match :
    IF match # NoMatch THEN Append(duplicates, match) ELSE duplicates)

\* the inner for loop of detectDuplicates with a break after the first match
DetectInnerFirstMatch(newEntry, existingEntries, duplicates) ==
  Let1(FirstIndex(1, Len(existingEntries),
                  LAMBDA j : compareEntries(newEntry, existingEntries[j]) # NoMatch),
       LAMBDA j :
    IF j > Len(existingEntries) THEN duplicates
    ELSE DetectStep(newEntry, existingEntries[j], duplicates))

\* the inner for loop of detectDuplicates
DetectInner(newEntry, existingEntries, duplicates) ==
  FoldRange(LAMBDA existingEntry, found : DetectStep(newEntry, existingEntry, found),
            duplicates, existingEntries, 1, Len(existingEntries))

\* detectDuplicates with its two loops exchanged
detectDuplicatesExistingFirst(newBibTeX, existingBibTeX) ==
  Let1(parseBibTeX(existingBibTeX), LAMBDA existingEntries :
    Let1(parseBibTeX(newBibTeX), LAMBDA newEntries :
      FoldRange(LAMBDA existingEntry, found :
                  FoldRange(LAMBDA newEntry, more :
                              DetectStep(newEntry, existingEntry, more),
                            found, newEntries, 1, Len(newEntries)),
                <<>>, existingEntries, 1, Len(existingEntries))))

detectDuplicates(newBibTeX, existingBibTeX) ==
  Let1(parseBibTeX(existingBibTeX), LAMBDA existingEntries :
    Let1(parseBibTeX(newBibTeX), LAMBDA newEntries :
      FoldRange(LAMBDA newEntry, found : DetectInner(newEntry, existingEntries, found),
                <<>>, newEntries, 1, Len(newEntries))))

\* ------------------------------------------------------------------------
\* DuplicateDetector: the dialog and the two filters
\* ------------------------------------------------------------------------

\* what showWarningMessage can resolve to; "dismissed" is undefined
DialogChoices ==
  {"Skip Duplicates", "Replace Existing", "Keep Both", "Cancel", "dismissed"}

\* showDuplicateDialog with a default case that keeps both
showDuplicateDialogKeepsBoth(matches, c) ==
  IF Len(matches) = 0
    THEN "keep-both"
    ELSE CASE c = "Skip Duplicates" -> "skip"
           [] c = "Replace Existing" -> "replace"
           [] OTHER -> "keep-both"

\* showDuplicateDialog: without duplicates no dialog is shown and both are
\* kept; otherwise the switch on what showWarningMessage resolved to
showDuplicateDialog(matches, choice) ==
  IF Len(matches) = 0
    THEN "keep-both"
    ELSE CASE choice = "Skip Duplicates" -> "skip"
           [] choice = "Replace Existing" -> "replace"
           [] choice = "Keep Both" -> "keep-both"
           [] OTHER -> "cancel"

RawTexts(entries) ==
  [i \in 1..Len(entries) |-> entries[i].rawText]

filterDuplicates(newBibTeX, duplicates, action) ==
  IF action = "keep-both" \/ Len(duplicates) = 0 THEN newBibTeX
  ELSE LET newEntries == parseBibTeX(newBibTeX)
           duplicateKeys == {duplicates[d].newEntry.key : d \in 1..Len(duplicates)}
       IN  IF action = "skip"
             THEN join(RawTexts(SelectSeq(newEntries,
                                          LAMBDA entry : entry.key \notin duplicateKeys)),
                       NLNL)
             ELSE newBibTeX

\* removeDuplicatesFromExisting with the keys of the new entries
removeDuplicatesByNewKey(existingBibTeX, duplicates) ==
  IF Len(duplicates) = 0 THEN existingBibTeX
  ELSE LET existingEntries == parseBibTeX(existingBibTeX)
           duplicateKeys == {duplicates[d].newEntry.key : d \in 1..Len(duplicates)}
       IN  join(RawTexts(SelectSeq(existingEntries,
                                   LAMBDA entry : entry.key \notin duplicateKeys)),
                NLNL)

removeDuplicatesFromExisting(existingBibTeX, duplicates) ==
  IF Len(duplicates) = 0 THEN existingBibTeX
  ELSE LET existingEntries == parseBibTeX(existingBibTeX)
           duplicateKeys == {duplicates[d].existingEntry.key : d \in 1..Len(duplicates)}
       IN  join(RawTexts(SelectSeq(existingEntries,
                                   LAMBDA entry : entry.key \notin duplicateKeys)),
                NLNL)

\* ------------------------------------------------------------------------
\* BibTeXFileManager.parseBibFile and appendEntries
\* ------------------------------------------------------------------------

\* the content of a file that does not exist: readFile throws
NoFile == <<"ENOENT">>

\* @\w+\{([^,]+), at index p: the index of the comma, 0 when it fails
HeaderComma(s, p) ==
  IF p > Len(s) \/ s[p] # "@" THEN 0
  ELSE Let1(SkipIn(s, p + 1, WordChars), LAMBDA t :
    IF t = p + 1 THEN 0
    ELSE IF t > Len(s) \/ s[t] # "{" THEN 0
    ELSE Let1(SkipNotIn(s, t + 1, {","}), LAMBDA c :
      IF c = t + 1 \/ c > Len(s) THEN 0 ELSE c))

\* the key captured by @\w+\{([^,]+), at index p, c being the index of the
\* comma, trimmed
HeaderKey(s, p, c) ==
  trim(SubSeq(s, SkipIn(s, p + 1, WordChars) + 1, c - 1))

\* ^ of a regular expression with the m flag
LineStart(s, p) ==
  p = 1 \/ s[p - 1] \in {"\n", "\r"}

\* /^@\w+\{([^,]+),/m at index p: the index of the comma, 0 when it fails
KeyLineComma(content, p) ==
  IF LineStart(content, p) THEN HeaderComma(content, p) ELSE 0

\* one turn of the while loop of parseBibFile: st.p is lastIndex, a the index
\* of the leftmost match
BibFileKeysStep(content, st) ==
  IF st.done THEN st
  ELSE IF st.p > Len(content) THEN [st EXCEPT !.done = TRUE]
  ELSE Let1(FirstIndex(st.p, Len(content),
                       LAMBDA j : KeyLineComma(content, j) # 0), LAMBDA a :
    IF a > Len(content) THEN [st EXCEPT !.done = TRUE]
    ELSE Let1(KeyLineComma(content, a), LAMBDA c :
      Let1(HeaderKey(content, a, c), LAMBDA key :
        [p |-> c + 1,
         keys |-> IF key # <<>> THEN st.keys \cup {key} ELSE st.keys,
         done |-> FALSE])))

\* what a readFile of the .bib file can settle with: the content of the
\* file, or a rejection, which is what the read of a file that does not
\* exist settles with and which NoFile stands for; a file that exists can
\* fail to be read as well
ReadFileResults(file) ==
  {file, NoFile}

\* parseBibFile: the keys of what readFile gave, the empty set when the read
\* was rejected
parseBibFile(file) ==
  IF file = NoFile THEN {}
  ELSE Repeat(LAMBDA st : BibFileKeysStep(file, st),
              [p |-> 1, keys |-> {}, done |-> FALSE],
              CountOf(file, "@") + 1).keys

\* the first index >= i where \n\} starts, 0 when there is none
ClosingLine(s, i) ==
  Let1(IF i + 1 > Len(s) THEN Len(s)
       ELSE FirstIndex(i, Len(s) - 1,
                       LAMBDA j : s[j] = "\n" /\ s[j + 1] = "}"),
       LAMBDA x : IF x >= Len(s) THEN 0 ELSE x)

\* entryRegex /(@\w+\{[^,]+,[\s\S]*?\n\})/ at index p: the index of the
\* newline before the closing brace, 0 when it fails
EntryRegexEnd(s, p) ==
  Let1(HeaderComma(s, p), LAMBDA c :
    IF c = 0 THEN 0 ELSE ClosingLine(s, c + 1))

\* one turn of the while loop of appendEntries: st.p is lastIndex, a the
\* index of the leftmost match; keyRegex matches each content at its start
AppendScanStep(s, st) ==
  IF st.done THEN st
  ELSE IF st.p > Len(s) THEN [st EXCEPT !.done = TRUE]
  ELSE Let1(FirstIndex(st.p, Len(s), LAMBDA j : EntryRegexEnd(s, j) # 0), LAMBDA a :
    IF a > Len(s) THEN [st EXCEPT !.done = TRUE]
    ELSE Let1(EntryRegexEnd(s, a), LAMBDA x :
      [p |-> x + 2,
       newEntries |-> Append(st.newEntries,
                             [key |-> HeaderKey(s, a, HeaderComma(s, a)),
                              content |-> SubSeq(s, a, x + 1)]),
       done |-> FALSE]))

\* the while loop over entryRegex.exec(bibtexEntries) of appendEntries
AppendScan(s) ==
  Repeat(LAMBDA st : AppendScanStep(s, st),
         [p |-> 1, newEntries |-> <<>>, done |-> FALSE],
         CountOf(s, "@") + 1).newEntries

\* the entries appendEntries finds in its argument and does not filter out
EntriesToAppend(bibtexEntries, existingKeys) ==
  SelectSeq(AppendScan(bibtexEntries),
            LAMBDA entry : entry.key \notin existingKeys)

\* the content appendEntries writes, file being what readFile gave: a
\* rejected read leaves the existing content the empty string
AppendedContent(file, entriesToAppend) ==
  (IF file = NoFile \/ file = <<>> THEN <<>>
   ELSE IF endsWith(file, NL) THEN file
   ELSE file \o NL)
    \o NL
    \o join([i \in 1..Len(entriesToAppend) |-> entriesToAppend[i].content], NLNL)
    \o NL

\* ------------------------------------------------------------------------
\* BibTeXCleaner
\* ------------------------------------------------------------------------

\* String.prototype.split('\n')
split(s) ==
  Let1(SelectSeq([i \in 1..Len(s) |-> i], LAMBDA i : s[i] = "\n"), LAMBDA nl :
    [k \in 1..(Len(nl) + 1) |->
       SubSeq(s, IF k = 1 THEN 1 ELSE nl[k - 1] + 1,
                 IF k <= Len(nl) THEN nl[k] - 1 ELSE Len(s))])

\* trimmed.match(/^@\w+\{/)
IsHeader(trimmed) ==
  /\ Len(trimmed) >= 3
  /\ trimmed[1] = "@"
  /\ Let1(SkipIn(trimmed, 2, WordChars), LAMBDA w :
       w > 2 /\ w <= Len(trimmed) /\ trimmed[w] = "{")

\* trimmed.match(/^(\w+)\s*=/): the field name in lower case, Undefined when
\* the line does not start a field
LineFieldName(trimmed) ==
  Let1(SkipIn(trimmed, 1, WordChars), LAMBDA n :
    Let1(SkipIn(trimmed, n, SpaceChars), LAMBDA e :
      IF n > 1 /\ e <= Len(trimmed) /\ trimmed[e] = "="
        THEN toLowerCase(SubSeq(trimmed, 1, n - 1))
        ELSE Undefined))

\* the braceCount after the characters of line
CountBraces(line, braceCount) ==
  braceCount + Len(SelectSeq(line, LAMBDA c : c = "{"))
             - Len(SelectSeq(line, LAMBDA c : c = "}"))

\* one turn of the for loop of splitEntries; st holds entries, currentEntry,
\* inEntry and braceCount
SplitStep(line, st) ==
  IF IsHeader(trim(line))
    THEN [entries |-> IF Len(st.currentEntry) > 0
                        THEN Append(st.entries, join(st.currentEntry, NL))
                        ELSE st.entries,
          currentEntry |-> <<line>>,
          inEntry |-> TRUE,
          braceCount |-> 1]
  ELSE IF st.inEntry
    THEN Let1(CountBraces(line, st.braceCount), LAMBDA count :
           [entries |-> st.entries,
            currentEntry |-> Append(st.currentEntry, line),
            inEntry |-> count # 0,
            braceCount |-> count])
  ELSE st

splitEntries(bibtex) ==
  Let1(split(bibtex), LAMBDA lines :
    Let1(FoldRange(LAMBDA line, st : SplitStep(line, st),
                   [entries |-> <<>>, currentEntry |-> <<>>,
                    inEntry |-> FALSE, braceCount |-> 0],
                   lines, 1, Len(lines)),
         LAMBDA st : IF Len(st.currentEntry) > 0
                       THEN Append(st.entries, join(st.currentEntry, NL))
                       ELSE st.entries))

\* one turn of the for loop of cleanEntry, for a line that is neither the
\* header nor the closing brace; st holds cleanedLines and skipNextLines
CleanStep(line, trimmed, fieldName, fieldsToRemove, st) ==
  IF fieldName # Undefined /\ fieldName \in fieldsToRemove
    THEN [cleanedLines |-> st.cleanedLines,
          skipNextLines |-> IF ~endsWith(trimmed, <<",">>)
                              THEN TRUE ELSE st.skipNextLines]
  ELSE IF st.skipNextLines
    THEN IF endsWith(trimmed, <<",">>) \/ fieldName # Undefined
           THEN [cleanedLines |-> IF fieldName # Undefined
                                    THEN Append(st.cleanedLines, line)
                                    ELSE st.cleanedLines,
                 skipNextLines |-> FALSE]
           ELSE st
  ELSE [cleanedLines |-> Append(st.cleanedLines, line),
        skipNextLines |-> st.skipNextLines]

\* one turn of the for loop of cleanEntry, for line i
CleanLine(lines, i, fieldsToRemove, st) ==
  Let1(trim(lines[i]), LAMBDA trimmed :
    IF IsHeader(trimmed) \/ (trimmed = <<"}">> /\ i = Len(lines))
      THEN [cleanedLines |-> Append(st.cleanedLines, lines[i]),
            skipNextLines |-> st.skipNextLines]
      ELSE Let1(LineFieldName(trimmed), LAMBDA fieldName :
             CleanStep(lines[i], trimmed, fieldName, fieldsToRemove, st)))

cleanEntry(entry, fieldsToRemove) ==
  Let1(split(entry), LAMBDA lines :
    join(FoldRange(LAMBDA i, st : CleanLine(lines, i, fieldsToRemove, st),
                   [cleanedLines |-> <<>>, skipNextLines |-> FALSE],
                   Indices(Len(lines)), 1, Len(lines)).cleanedLines,
         NL))

\* cleanBibTeX, fieldsToRemove being what getFieldsToRemove returns
cleanBibTeX(bibtex, fieldsToRemove) ==
  IF fieldsToRemove = {} THEN bibtex
  ELSE Let1(splitEntries(bibtex), LAMBDA entries :
         join([i \in 1..Len(entries) |-> cleanEntry(entries[i], fieldsToRemove)],
              NLNL))

\* ------------------------------------------------------------------------
\* The texts of the model: records of the .bib file and records Zotero exports
\* ------------------------------------------------------------------------

\* existing record, a well-formed record:  @a{k1,\ntitle={Ab}\n}
X1 ==
  <<"@","a","{","k","1",",","\n","t","i","t","l","e","=","{","A","b","}",
    "\n","}">>

\* existing record, a well-formed record with a DOI:  @a{k2,\ntitle={Cd},\ndoi={1},\n}
X2 ==
  <<"@","a","{","k","2",",","\n","t","i","t","l","e","=","{","C","d","}",
    ",","\n","d","o","i","=","{","1","}",",","\n","}">>

\* existing record, a record with an @ in a field value:  @a{k3,\nnote={x@y}\n}
X3 ==
  <<"@","a","{","k","3",",","\n","n","o","t","e","=","{","x","@","y","}",
    "\n","}">>

\* existing record, a record written on one line:  @a{k4,author={Jo},year={1},}
X4 ==
  <<"@","a","{","k","4",",","a","u","t","h","o","r","=","{","J","o","}",",",
    "y","e","a","r","=","{","1","}",",","}">>

\* incoming record, the key of X1:  @a{k1,\ntitle={Zz}\n}
N1 ==
  <<"@","a","{","k","1",",","\n","t","i","t","l","e","=","{","Z","z","}",
    "\n","}">>

\* incoming record, the key of X1 and N1, the title of X2:  @b{k1,\ntitle={Cd}\n}
N2 ==
  <<"@","b","{","k","1",",","\n","t","i","t","l","e","=","{","C","d","}",
    "\n","}">>

\* incoming record, the DOI of X2, and a field the cleaner removes:  @a{k6,\nfile={f},\ndoi={1},\n}
N3 ==
  <<"@","a","{","k","6",",","\n","f","i","l","e","=","{","f","}",",","\n",
    "d","o","i","=","{","1","}",",","\n","}">>

\* incoming record, on one line, the author and year of X4:  @a{k7,author={Jo},year={1},}
N4 ==
  <<"@","a","{","k","7",",","a","u","t","h","o","r","=","{","J","o","}",",",
    "y","e","a","r","=","{","1","}",",","}">>

\* incoming record, the key of X3:  @a{k3,\ntitle={Q}\n}
N5 ==
  <<"@","a","{","k","3",",","\n","t","i","t","l","e","=","{","Q","}","\n",
    "}">>

\* incoming record, a field value with a closing brace at the start of a line:  @a{k8,\ntitle={K\n},\nyear={1}\n}
N6 ==
  <<"@","a","{","k","8",",","\n","t","i","t","l","e","=","{","K","\n","}",
    ",","\n","y","e","a","r","=","{","1","}","\n","}">>

ExistingLibrary ==
  <<X1, X2, X3, X4>>

IncomingLibrary ==
  <<N1, N2, N3, N4, N5, N6>>

\* the most records the .bib file holds when the workflow starts
MaxExisting == 2

\* the most records one export holds
MaxIncoming == 2

\* the sequences of at most n distinct indices of a library of m records
IndexSeqs(n, m) ==
  UNION {{q \in [1..k -> 1..m] : \A i, j \in 1..k : i # j => q[i] # q[j]} :
         k \in 0..n}

\* the sequences of IndexSeqs(n, m) that follow the order of the library
OrderedIndexSeqs(n, m) ==
  {q \in IndexSeqs(n, m) : \A i, j \in 1..Len(q) : i < j => q[i] < q[j]}

\* a text holding the records recs, a blank line between two records
TextOf(recs) ==
  IF Len(recs) = 0 THEN <<>> ELSE join(recs, NLNL) \o NL

DEFAULT_FIELDS_TO_REMOVE ==
  {<<"a","n","n","o","t","a","t","i","o","n">>, <<"f","i","l","e">>}

\* existing record of the comparisons, a DOI, an author and a year:
\*   @a{k1,\ntitle={Deep Learning},\ndoi={10.1/ab},\nauthor={Smith, J},\nyear={2020},\n}
E1 ==
  <<"@","a","{","k","1",",","\n","t","i","t","l","e","=","{","D","e","e","p",
    " ","L","e","a","r","n","i","n","g","}",",","\n","d","o","i","=","{","1",
    "0",".","1","/","a","b","}",",","\n","a","u","t","h","o","r","=","{","S",
    "m","i","t","h",","," ","J","}",",","\n","y","e","a","r","=","{","2","0",
    "2","0","}",",","\n","}">>

\* existing record of the comparisons, a title of twenty characters:
\*   @a{k2,\ntitle={abcdefghijklmnopqrst},\nauthor={Lee, Ann},\nyear={2019},\n}
E2 ==
  <<"@","a","{","k","2",",","\n","t","i","t","l","e","=","{","a","b","c","d",
    "e","f","g","h","i","j","k","l","m","n","o","p","q","r","s","t","}",",",
    "\n","a","u","t","h","o","r","=","{","L","e","e",","," ","A","n","n","}",
    ",","\n","y","e","a","r","=","{","2","0","1","9","}",",","\n","}">>

\* existing record of the comparisons, a title of punctuation and an empty DOI:
\*   @a{k3,\ntitle={!!!},\ndoi={},\n}
E3 ==
  <<"@","a","{","k","3",",","\n","t","i","t","l","e","=","{","!","!","!","}",
    ",","\n","d","o","i","=","{","}",",","\n","}">>

\* existing record of the comparisons, a short title:
\*   @a{k4,\ntitle={ab},\n}
E4 ==
  <<"@","a","{","k","4",",","\n","t","i","t","l","e","=","{","a","b","}",",",
    "\n","}">>

\* incoming record of the comparisons, the key, DOI and title of E1:
\*   @b{k1,\ntitle={Deep Learning},\ndoi={10.1/ab},\n}
A1 ==
  <<"@","b","{","k","1",",","\n","t","i","t","l","e","=","{","D","e","e","p",
    " ","L","e","a","r","n","i","n","g","}",",","\n","d","o","i","=","{","1",
    "0",".","1","/","a","b","}",",","\n","}">>

\* incoming record of the comparisons, the DOI of E1 in upper case, and its title:
\*   @a{n2,\ntitle={Deep Learning},\ndoi={10.1/AB},\n}
A2 ==
  <<"@","a","{","n","2",",","\n","t","i","t","l","e","=","{","D","e","e","p",
    " ","L","e","a","r","n","i","n","g","}",",","\n","d","o","i","=","{","1",
    "0",".","1","/","A","B","}",",","\n","}">>

\* incoming record of the comparisons, the title of E1 but for punctuation, case and braces:
\*   @a{n3,\ntitle={{Deep} learning!},\n}
A3 ==
  <<"@","a","{","n","3",",","\n","t","i","t","l","e","=","{","{","D","e","e",
    "p","}"," ","l","e","a","r","n","i","n","g","!","}",",","\n","}">>

\* incoming record of the comparisons, a title at distance 3 of the title of E2 (similarity 0.85), its author and year:
\*   @a{n4,\ntitle={abcdefghijklmnopqXYZ},\nauthor={Lee, Ann},\nyear={2019},\n}
A4 ==
  <<"@","a","{","n","4",",","\n","t","i","t","l","e","=","{","a","b","c","d",
    "e","f","g","h","i","j","k","l","m","n","o","p","q","X","Y","Z","}",",",
    "\n","a","u","t","h","o","r","=","{","L","e","e",","," ","A","n","n","}",
    ",","\n","y","e","a","r","=","{","2","0","1","9","}",",","\n","}">>

\* incoming record of the comparisons, a title at distance 2 of the title of E2 (similarity 0.9):
\*   @a{n5,\ntitle={abcdefghijklmnopqrYZ},\n}
A5 ==
  <<"@","a","{","n","5",",","\n","t","i","t","l","e","=","{","a","b","c","d",
    "e","f","g","h","i","j","k","l","m","n","o","p","q","r","Y","Z","}",",",
    "\n","}">>

\* incoming record of the comparisons, the key of E2 and nothing else of it; a title of punctuation and an empty DOI:
\*   @a{k2,\ntitle={???},\ndoi={},\n}
A6 ==
  <<"@","a","{","k","2",",","\n","t","i","t","l","e","=","{","?","?","?","}",
    ",","\n","d","o","i","=","{","}",",","\n","}">>

\* incoming record of the comparisons, the title of E4 with an underscore in it:
\*   @a{n7,\ntitle={a_b},\n}
A7 ==
  <<"@","a","{","n","7",",","\n","t","i","t","l","e","=","{","a","_","b","}",
    ",","\n","}">>

\* incoming record of the comparisons, the key of E2 and the title of E1: it
\* matches both of them, E2 by its key and E1 by its title
\*   @a{k2,\ntitle={Deep Learning},\n}
A13 ==
  <<"@","a","{","k","2",",","\n","t","i","t","l","e","=","{","D","e","e","p",
    " ","L","e","a","r","n","i","n","g","}",",","\n","}">>

\* E2 stands before E1, so that the incoming records, taken in their order,
\* meet their matches in both orders
ComparedExisting ==
  <<E2, E1, E3, E4>>

ComparedIncoming ==
  <<A1, A2, A3, A4, A5, A6, A7, A13>>

\* the most records of a text given to detectDuplicates
MaxCompared == 2

\* existing record of the comparisons, an author and no year:
\*   @a{k5,\nauthor={Roe, Al},\n}
E5 ==
  <<"@","a","{","k","5",",","\n","a","u","t","h","o","r","=","{","R","o","e",
    ","," ","A","l","}",",","\n","}">>

\* existing record of the comparisons, an author of ten characters and the year 2001:
\*   @a{k7,\nauthor={abcde fghi},\nyear={2001},\n}
E7 ==
  <<"@","a","{","k","7",",","\n","a","u","t","h","o","r","=","{","a","b","c",
    "d","e"," ","f","g","h","i","}",",","\n","y","e","a","r","=","{","2","0",
    "0","1","}",",","\n","}">>

\* existing record of the comparisons, two authors by their initials, and the year 2019:
\*   @a{k6,\nauthor={J. Doe, J. Roe},\nyear={2019},\n}
E6 ==
  <<"@","a","{","k","6",",","\n","a","u","t","h","o","r","=","{","J","."," ",
    "D","o","e",","," ","J","."," ","R","o","e","}",",","\n","y","e","a","r",
    "=","{","2","0","1","9","}",",","\n","}">>

\* incoming record of the comparisons, the author of E5 and no year either:
\*   @a{n8,\nauthor={Roe, Al},\n}
A8 ==
  <<"@","a","{","n","8",",","\n","a","u","t","h","o","r","=","{","R","o","e",
    ","," ","A","l","}",",","\n","}">>

\* incoming record of the comparisons, the author of E1 and its year followed by a full stop:
\*   @a{n9,\nauthor={Smith, J},\nyear={2020.},\n}
A9 ==
  <<"@","a","{","n","9",",","\n","a","u","t","h","o","r","=","{","S","m","i",
    "t","h",","," ","J","}",",","\n","y","e","a","r","=","{","2","0","2","0",
    ".","}",",","\n","}">>

\* incoming record of the comparisons, an author at distance 2 of the author of E7 (similarity 0.8), and its year:
\*   @a{n11,\nauthor={abcde fgXY},\nyear={2001},\n}
A11 ==
  <<"@","a","{","n","1","1",",","\n","a","u","t","h","o","r","=","{","a","b",
    "c","d","e"," ","f","g","X","Y","}",",","\n","y","e","a","r","=","{","2",
    "0","0","1","}",",","\n","}">>

\* incoming record of the comparisons, an author at distance 1 of the author of E7 (similarity 0.9), and its year:
\*   @a{n12,\nauthor={abcde fghZ},\nyear={2001},\n}
A12 ==
  <<"@","a","{","n","1","2",",","\n","a","u","t","h","o","r","=","{","a","b",
    "c","d","e"," ","f","g","h","Z","}",",","\n","y","e","a","r","=","{","2",
    "0","0","1","}",",","\n","}">>

\* incoming record of the comparisons, the two authors of E6 by their full names, and its year:
\*   @a{n10,\nauthor={Jane Doe and John Roe},\nyear={2019},\n}
A10 ==
  <<"@","a","{","n","1","0",",","\n","a","u","t","h","o","r","=","{","J","a",
    "n","e"," ","D","o","e"," ","a","n","d"," ","J","o","h","n"," ","R","o",
    "e","}",",","\n","y","e","a","r","=","{","2","0","1","9","}",",","\n",
    "}">>

\* the existing records of the comparisons of one pair
PairExisting ==
  <<E1, E2, E3, E4, E5, E6, E7>>

\* the incoming records of the comparisons of one pair
PairIncoming ==
  <<A1, A2, A3, A4, A5, A6, A7, A8, A9, A10, A11, A12>>

\* ------------------------------------------------------------------------
\* The citation workflow: handleTriggerDetected, one action per await
\* ------------------------------------------------------------------------

VARIABLES
  pc,                   \* where handleTriggerDetected stands
  isProcessingTrigger,  \* the re-entry flag of extension.ts
  pickerInUse,          \* the flag of the status bar manager
  currentBibFile,       \* TRUE when the status bar holds a .bib file
  bibFile,              \* the content of the .bib file, NoFile when absent
  doc,                  \* the trigger's place in the document
  cleanedBibtex,        \* the incoming text, after BibTeXCleaner
  existingKeys,         \* what parseBibFile returned
  existingBibTeXString, \* what readFile returned
  duplicates,           \* what detectDuplicates returned
  action,               \* what showDuplicateDialog returned
  pending,              \* the arguments of the appendEntries call to come
  outcome,              \* how the workflow ended
  choice,               \* the button the user chose in the dialog
  written,              \* TRUE once writeFile has been called
  fileBefore,           \* the content of the .bib file when the workflow began
  existingRecords,      \* the records the .bib file was made of
  exportedRecords,      \* the records Zotero exported
  removedFields,        \* the fields the cleaner was configured to remove
  writeCall,            \* the writeFile call appendEntries awaits, if any
  readFailed,           \* TRUE once a readFile of the .bib file has rejected
  newBibTeX,            \* the first argument of detectDuplicates
  existingBibTeX,       \* the second argument of detectDuplicates
  newEntry,             \* the first argument of compareEntries
  existingEntry,        \* the second argument of compareEntries
  match,                \* what compareEntries returned
  found,                \* what detectDuplicates returned
  called,               \* the method of DuplicateDetector that was called
  strA,                 \* the first argument of calculateSimilarity
  strB,                 \* the second argument of calculateSimilarity
  distance,             \* what levenshteinDistance returned for them
  simResult,            \* what calculateSimilarity returned for them
  parsed,               \* what parseBibTeX returned for newBibTeX
  reparsed              \* what parseBibTeX returned for the rawText of parsed,
                        \* joined by blank lines

workflowVars ==
  <<pc, isProcessingTrigger, pickerInUse, currentBibFile, bibFile, doc,
    cleanedBibtex, existingKeys, existingBibTeXString, duplicates, action,
    pending, outcome, choice, written, fileBefore, existingRecords,
    exportedRecords, removedFields, writeCall, readFailed>>

detectorVars ==
  <<newBibTeX, existingBibTeX, newEntry, existingEntry, match, found, called>>

functionVars ==
  <<strA, strB, distance, simResult, parsed, reparsed>>

VARIABLES
  isCheckingConnection, \* the flag of checkZoteroConnection
  zoteroConnected,      \* the status the status bar holds
  monitorRequests,      \* the availability requests of the status bar manager
                        \* that have not resolved
  manualCheck,          \* where the last manualConnectionCheck stands
  shownConnected,       \* the status its message reported
  completedSince,       \* TRUE when an availability request of the status
                        \* bar manager resolved after the command was invoked
                        \* and before its message was shown
  commandAwaiting,      \* TRUE while a manualConnectionCheck awaits the
                        \* request it sent
  started,              \* the calls of handleTriggerDetected that passed
                        \* the re-entry guard
  event                 \* the last trigger, timer tick or command

VARIABLES
  docText,              \* the line of the document that holds the trigger
  triggerCol,           \* the column at which the trigger starts
  pickedKeys,           \* the citation keys given to replaceTrigger
  editResult,           \* what replaceTrigger returned, and the line after it
  exportKeys,           \* the citation keys given to exportBibTeX
  batchAnswer,          \* how Better BibTeX answers the export of all keys
  singleAnswer,         \* how it answers the export of each key alone
  exportResult,         \* what exportBibTeX returned, and the requests it sent
  exportCall,           \* the request a call of exportBibTeX awaits, if any
  requestIdCounter      \* the request ids the client has given out while
                        \* exportBibTeX is called on its own

callVars ==
  <<docText, triggerCol, pickedKeys, editResult, exportKeys, batchAnswer,
    singleAnswer, exportResult, exportCall, requestIdCounter>>

sessionVars ==
  <<isCheckingConnection, zoteroConnected, monitorRequests, manualCheck,
    shownConnected, completedSince, commandAwaiting, started, event,
    callVars>>

vars ==
  <<workflowVars, detectorVars, functionVars, sessionVars>>

NoPending ==
  [bibtexEntries |-> <<>>, existingKeys |-> {}]

\* appendEntries has not called writeFile
NoWriteCall ==
  [awaited |-> FALSE, newContent |-> <<>>]

\* the .bib files the workflow starts from
ExistingFiles ==
  {[records |-> [i \in 1..Len(q) |-> ExistingLibrary[q[i]]], exists |-> TRUE] :
     q \in IndexSeqs(MaxExisting, Len(ExistingLibrary))}
    \cup {[records |-> <<>>, exists |-> FALSE]}

\* what exportBibTeX resolves with for the keys the user picked (the text of
\* some records in the order of the library, or the empty string), or its
\* rejection
Exports ==
  {[resolved |-> TRUE, records |-> [i \in 1..Len(q) |-> IncomingLibrary[q[i]]]] :
     q \in OrderedIndexSeqs(MaxIncoming, Len(IncomingLibrary))}
    \cup {[resolved |-> FALSE, records |-> <<>>]}

\* no method of DuplicateDetector has been called on its own
DetectorIdle ==
  /\ newBibTeX = <<>>
  /\ existingBibTeX = <<>>
  /\ newEntry = NoEntry
  /\ existingEntry = NoEntry
  /\ match = NoMatch
  /\ found = <<>>
  /\ called = "none"

\* no function of DuplicateDetector has been applied on its own
FunctionsIdle ==
  /\ strA = <<>>
  /\ strB = <<>>
  /\ distance = 0
  /\ simResult = One
  /\ parsed = <<>>
  /\ reparsed = <<>>

NoEvent ==
  [kind |-> "none", alt |-> 0]

NoEdit ==
  [success |-> FALSE, text |-> <<>>]

NoExport ==
  [resolved |-> FALSE, text |-> <<>>, requests |-> 0]

\* no call of exportBibTeX awaits a request; in a call, what it awaits (the
\* request for all the keys or the request for the key at the index), the
\* entries collected and the requests sent so far
NoExportCall ==
  [awaits |-> "none", index |-> 0, validEntries |-> <<>>, requests |-> 0]

\* neither replaceTrigger nor exportBibTeX has been called on its own
CallsIdle ==
  /\ docText = <<>>
  /\ triggerCol = 0
  /\ pickedKeys = <<>>
  /\ editResult = NoEdit
  /\ exportKeys = <<>>
  /\ batchAnswer = "none"
  /\ singleAnswer = <<>>
  /\ exportResult = NoExport
  /\ exportCall = NoExportCall
  /\ requestIdCounter = 0

\* no trigger, timer tick or command has arrived, and the status bar manager
\* has no request outstanding
MonitorIdle ==
  /\ isCheckingConnection = FALSE
  /\ zoteroConnected = FALSE
  /\ monitorRequests = 0
  /\ manualCheck = "none"
  /\ shownConnected = FALSE
  /\ completedSince = FALSE
  /\ commandAwaiting = FALSE
  /\ started = 0
  /\ event = NoEvent

SessionIdle ==
  /\ CallsIdle
  /\ MonitorIdle

Init ==
  /\ DetectorIdle
  /\ FunctionsIdle
  /\ SessionIdle
  /\ pc = "idle"
  /\ isProcessingTrigger = FALSE
  /\ pickerInUse = FALSE
  /\ currentBibFile \in BOOLEAN
  /\ \E f \in ExistingFiles :
       /\ existingRecords = f.records
       /\ bibFile = IF f.exists THEN TextOf(f.records) ELSE NoFile
  /\ fileBefore = bibFile
  /\ doc = "trigger"
  /\ cleanedBibtex = <<>>
  /\ existingKeys = {}
  /\ existingBibTeXString = <<>>
  /\ duplicates = <<>>
  /\ action = "none"
  /\ pending = NoPending
  /\ outcome = "running"
  /\ choice = "none"
  /\ written = FALSE
  /\ exportedRecords = <<>>
  /\ removedFields = {}
  /\ writeCall = NoWriteCall
  /\ readFailed = FALSE

\* lines 238, 281, 399 and 402-404, errorHandler.ts lines 110-122: an error
\* is thrown and caught, and handleError shows its message and awaits the
\* user; a rejection of a request or of the file system, whose message the
\* extension does not choose, may be classified as a cancellation, which is
\* shown no message, so that the finally block follows at once
Throw(rejection) ==
  /\ outcome' = "error"
  /\ \E shown \in (IF rejection THEN BOOLEAN ELSE {TRUE}) :
       IF shown
         THEN /\ pc' = "showErrorMessage"
              /\ UNCHANGED isProcessingTrigger
         ELSE /\ pc' = "done"
              /\ isProcessingTrigger' = FALSE

\* lines 262-271 and 306-315: the user cancelled; when the document is still
\* the one of the active editor the deletion of the trigger is awaited,
\* otherwise the flag is cleared and the workflow returns
Cancelled(how) ==
  /\ outcome' = how
  /\ UNCHANGED doc
  /\ \E editorActive \in BOOLEAN :
       IF editorActive
         THEN /\ pc' = "deleteTrigger"
              /\ UNCHANGED isProcessingTrigger
         ELSE /\ pc' = "done"
              /\ isProcessingTrigger' = FALSE

\* lines 325 and 387: where the workflow goes once the .bib file is known,
\* autoAppend being what isAutoAppendEnabled returns
AfterBibFile ==
  \E autoAppend \in BOOLEAN :
    pc' = IF autoAppend THEN "parseBibFile" ELSE "replaceTrigger"

\* lines 224-229: the trigger is detected and the flag set
TriggerDetected ==
  /\ pc = "idle"
  /\ UNCHANGED <<detectorVars, functionVars, sessionVars, writeCall, readFailed>>
  /\ ~isProcessingTrigger
  /\ isProcessingTrigger' = TRUE
  /\ pc' = "checkAvailability"
  /\ UNCHANGED <<pickerInUse, currentBibFile, bibFile, doc, cleanedBibtex,
                 existingKeys, existingBibTeXString, duplicates, action,
                 pending, outcome, choice, written, fileBefore,
                 existingRecords, exportedRecords, removedFields>>

\* lines 235-247: checkAvailability resolves
CheckAvailability ==
  /\ pc = "checkAvailability"
  /\ UNCHANGED <<detectorVars, functionVars, sessionVars, writeCall, readFailed>>
  /\ \E isAvailable \in BOOLEAN :
       IF isAvailable
         THEN /\ pickerInUse' = TRUE
              /\ pc' = "invokePicker"
              /\ UNCHANGED <<outcome, isProcessingTrigger>>
         ELSE /\ Throw(FALSE)
              /\ UNCHANGED pickerInUse
  /\ UNCHANGED <<currentBibFile, bibFile, doc, cleanedBibtex, existingKeys,
                 existingBibTeXString, duplicates, action, pending, choice,
                 written, fileBefore, existingRecords, exportedRecords,
                 removedFields>>

\* lines 251-272: invokePicker resolves with keys, with no key, or rejects
InvokePicker ==
  /\ pc = "invokePicker"
  /\ UNCHANGED <<detectorVars, functionVars, sessionVars, writeCall, readFailed>>
  /\ pickerInUse' = FALSE
  /\ \E result \in {"keys", "cancelled", "rejected"} :
       CASE result = "keys" ->
              /\ pc' = "exportBibTeX"
              /\ UNCHANGED <<doc, outcome, isProcessingTrigger>>
         [] result = "cancelled" ->
              Cancelled("picker cancelled")
         [] OTHER ->
              /\ Throw(TRUE)
              /\ UNCHANGED doc
  /\ UNCHANGED <<currentBibFile, bibFile, cleanedBibtex, existingKeys,
                 existingBibTeXString, duplicates, action, pending, choice,
                 written, fileBefore, existingRecords, exportedRecords,
                 removedFields>>

\* lines 278-295: exportBibTeX resolves or rejects; the text is cleaned, the
\* fields to remove being what the configuration holds, and the status bar
\* asked for the .bib file
ExportBibTeX ==
  /\ pc = "exportBibTeX"
  /\ UNCHANGED <<detectorVars, functionVars, sessionVars, writeCall, readFailed>>
  /\ \E export \in Exports :
       IF export.resolved /\ Len(export.records) > 0
         THEN /\ \E fieldsToRemove \in {{}, DEFAULT_FIELDS_TO_REMOVE} :
                   /\ cleanedBibtex' = cleanBibTeX(TextOf(export.records),
                                                   fieldsToRemove)
                   /\ removedFields' = fieldsToRemove
              /\ exportedRecords' = export.records
              /\ IF currentBibFile THEN AfterBibFile
                                   ELSE pc' = "selectBibFile"
              /\ UNCHANGED <<outcome, isProcessingTrigger>>
         ELSE /\ Throw(~export.resolved)
              /\ UNCHANGED <<cleanedBibtex, exportedRecords, removedFields>>
  /\ UNCHANGED <<pickerInUse, currentBibFile, bibFile, doc, existingKeys,
                 existingBibTeXString, duplicates, action, pending, choice,
                 written, fileBefore, existingRecords>>

\* lines 299-320: selectBibFile resolves with a file or with null
SelectBibFile ==
  /\ pc = "selectBibFile"
  /\ UNCHANGED <<detectorVars, functionVars, sessionVars, writeCall, readFailed>>
  /\ \E selected \in BOOLEAN :
       IF selected
         THEN /\ currentBibFile' = TRUE
              /\ AfterBibFile
              /\ UNCHANGED <<doc, outcome, isProcessingTrigger>>
         ELSE /\ Cancelled("selection cancelled")
              /\ UNCHANGED currentBibFile
  /\ UNCHANGED <<pickerInUse, bibFile, cleanedBibtex, existingKeys,
                 existingBibTeXString, duplicates, action, pending, choice,
                 written, fileBefore, existingRecords, exportedRecords,
                 removedFields>>

\* line 327, part_002 lines 211-233: the readFile of parseBibFile resolves
\* or rejects, and parseBibFile resolves, with the keys of what was read or,
\* the rejection caught, with no key
ParseBibFile ==
  /\ pc = "parseBibFile"
  /\ UNCHANGED <<detectorVars, functionVars, sessionVars, writeCall>>
  /\ \E fileContent \in ReadFileResults(bibFile) :
       /\ existingKeys' = parseBibFile(fileContent)
       /\ readFailed' = (readFailed \/ fileContent = NoFile)
  /\ pc' = "readFile"
  /\ UNCHANGED <<isProcessingTrigger, pickerInUse, currentBibFile, bibFile,
                 doc, cleanedBibtex, existingBibTeXString, duplicates, action,
                 pending, outcome, choice, written, fileBefore,
                 existingRecords, exportedRecords, removedFields>>

\* lines 331-342 and 376-379: readFile resolves or rejects; the duplicates
\* are detected and either the dialog is shown or appendEntries called
ReadFile ==
  /\ pc = "readFile"
  /\ UNCHANGED <<detectorVars, functionVars, sessionVars, writeCall>>
  /\ \E fileContent \in ReadFileResults(bibFile) :
       IF fileContent = NoFile
         THEN /\ Throw(TRUE)
              /\ readFailed' = TRUE
              /\ UNCHANGED <<existingBibTeXString, duplicates, pending>>
         ELSE /\ existingBibTeXString' = fileContent
              /\ duplicates' = detectDuplicates(cleanedBibtex, fileContent)
              /\ IF Len(duplicates') > 0
                   THEN /\ pc' = "showDuplicateDialog"
                        /\ UNCHANGED pending
                   ELSE /\ pc' = "appendEntries"
                        /\ pending' = [bibtexEntries |-> cleanedBibtex,
                                       existingKeys |-> existingKeys]
              /\ UNCHANGED <<outcome, isProcessingTrigger, readFailed>>
  /\ UNCHANGED <<pickerInUse, currentBibFile, bibFile, doc, cleanedBibtex,
                 existingKeys, action, choice, written, fileBefore,
                 existingRecords, exportedRecords, removedFields>>

\* lines 342-375: the dialog resolves with a button, or is dismissed
ShowDuplicateDialog ==
  /\ pc = "showDuplicateDialog"
  /\ UNCHANGED <<detectorVars, functionVars, sessionVars, writeCall, readFailed>>
  /\ \E c \in DialogChoices :
       /\ choice' = c
       /\ action' = showDuplicateDialog(duplicates, c)
  /\ CASE action' = "cancel" ->
            /\ isProcessingTrigger' = FALSE
            /\ outcome' = "duplicates cancelled"
            /\ pc' = "done"
            /\ UNCHANGED pending
       [] action' = "skip" ->
            \E filteredBibtex \in {filterDuplicates(cleanedBibtex, duplicates, "skip")} :
                IF Len(trim(filteredBibtex)) = 0
                  THEN /\ isProcessingTrigger' = FALSE
                       /\ outcome' = "all exist"
                       /\ pc' = "done"
                       /\ UNCHANGED pending
                  ELSE /\ pending' = [bibtexEntries |-> filteredBibtex,
                                      existingKeys |-> existingKeys]
                       /\ pc' = "appendEntries"
                       /\ UNCHANGED <<outcome, isProcessingTrigger>>
       [] action' = "replace" ->
            /\ pc' = "writeFile"
            /\ UNCHANGED <<pending, outcome, isProcessingTrigger>>
       [] OTHER ->
            /\ pending' = [bibtexEntries |-> cleanedBibtex, existingKeys |-> {}]
            /\ pc' = "appendEntries"
            /\ UNCHANGED <<outcome, isProcessingTrigger>>
  /\ UNCHANGED <<pickerInUse, currentBibFile, bibFile, doc, cleanedBibtex,
                 existingKeys, existingBibTeXString, duplicates, written,
                 fileBefore, existingRecords, exportedRecords, removedFields>>

\* lines 361, 374, 379, part_002 lines 261-288: appendEntries returns when
\* it has nothing to append; otherwise its readFile resolves or rejects, the
\* new content is built from what was read, or, the rejection caught, from
\* the empty string, and writeFile is called with it
AppendEntries ==
  /\ pc = "appendEntries"
  /\ ~writeCall.awaited
  /\ UNCHANGED <<detectorVars, functionVars, sessionVars>>
  /\ \E entriesToAppend \in {EntriesToAppend(pending.bibtexEntries,
                                               pending.existingKeys)} :
       IF Len(entriesToAppend) = 0
         THEN /\ pc' = "replaceTrigger"
              /\ UNCHANGED <<writeCall, readFailed>>
         ELSE \E fileContent \in ReadFileResults(bibFile) :
                /\ writeCall' = [awaited |-> TRUE,
                                 newContent |-> AppendedContent(fileContent,
                                                                entriesToAppend)]
                /\ readFailed' = (readFailed \/ fileContent = NoFile)
                /\ UNCHANGED pc
  /\ UNCHANGED <<isProcessingTrigger, pickerInUse, currentBibFile, bibFile,
                 doc, cleanedBibtex, existingKeys, existingBibTeXString,
                 duplicates, action, pending, outcome, choice, written,
                 fileBefore, existingRecords, exportedRecords, removedFields>>

\* part_002 lines 286-289: the writeFile of appendEntries resolves, the file
\* holding the content built before the call, or rejects
AppendEntriesWriteFile ==
  /\ pc = "appendEntries"
  /\ writeCall.awaited
  /\ UNCHANGED <<detectorVars, functionVars, sessionVars, readFailed>>
  /\ writeCall' = NoWriteCall
  /\ written' = TRUE
  /\ \E writeOk \in BOOLEAN :
       IF writeOk
         THEN /\ bibFile' = writeCall.newContent
              /\ pc' = "replaceTrigger"
              /\ UNCHANGED <<outcome, isProcessingTrigger>>
         ELSE /\ Throw(TRUE)
              /\ UNCHANGED bibFile
  /\ UNCHANGED <<pickerInUse, currentBibFile, doc, cleanedBibtex,
                 existingKeys, existingBibTeXString, duplicates, action,
                 pending, choice, fileBefore, existingRecords,
                 exportedRecords, removedFields>>

\* lines 364-368: the replace decision writes the file
WriteFile ==
  /\ pc = "writeFile"
  /\ UNCHANGED <<detectorVars, functionVars, sessionVars, writeCall, readFailed>>
  /\ written' = TRUE
  /\ \E writeOk \in BOOLEAN :
       IF writeOk
         THEN /\ bibFile' = removeDuplicatesFromExisting(existingBibTeXString,
                                                         duplicates)
                              \o NLNL \o cleanedBibtex
              /\ pc' = "replaceTrigger"
              /\ UNCHANGED <<outcome, isProcessingTrigger>>
         ELSE /\ Throw(TRUE)
              /\ UNCHANGED bibFile
  /\ UNCHANGED <<pickerInUse, currentBibFile, doc, cleanedBibtex,
                 existingKeys, existingBibTeXString, duplicates, action,
                 pending, choice, fileBefore, existingRecords,
                 exportedRecords, removedFields>>

\* lines 387-400: replaceTrigger resolves
ReplaceTrigger ==
  /\ pc = "replaceTrigger"
  /\ UNCHANGED <<detectorVars, functionVars, sessionVars, writeCall, readFailed>>
  /\ \E success \in BOOLEAN :
       IF success
         THEN /\ doc' = "cite"
              /\ outcome' = "inserted"
              /\ isProcessingTrigger' = FALSE
              /\ pc' = "done"
         ELSE /\ Throw(FALSE)
              /\ UNCHANGED doc
  /\ UNCHANGED <<pickerInUse, currentBibFile, bibFile, cleanedBibtex,
                 existingKeys, existingBibTeXString, duplicates, action,
                 pending, choice, written, fileBefore, existingRecords,
                 exportedRecords, removedFields>>

\* the catch block without the finally block: once the message is dismissed
\* the flag stays as it is
HandleErrorKeepsFlag ==
  /\ pc = "showErrorMessage"
  /\ UNCHANGED <<detectorVars, functionVars, sessionVars, writeCall, readFailed>>
  /\ pc' = "done"
  /\ UNCHANGED <<isProcessingTrigger, pickerInUse, currentBibFile, bibFile,
                 doc, cleanedBibtex, existingKeys, existingBibTeXString,
                 duplicates, action, pending, outcome, choice, written,
                 fileBefore, existingRecords, exportedRecords, removedFields>>

\* lines 404-411, errorHandler.ts line 120: the user dismisses the error
\* message, handleError resolves and the finally block clears the flag
HandleError ==
  /\ pc = "showErrorMessage"
  /\ UNCHANGED <<detectorVars, functionVars, sessionVars, writeCall, readFailed>>
  /\ isProcessingTrigger' = FALSE
  /\ pc' = "done"
  /\ UNCHANGED <<pickerInUse, currentBibFile, bibFile, doc, cleanedBibtex,
                 existingKeys, existingBibTeXString, duplicates, action,
                 pending, outcome, choice, written, fileBefore,
                 existingRecords, exportedRecords, removedFields>>

\* lines 264-271 and 308-315: the edit that deletes the trigger resolves,
\* applied or not, the flag is cleared and the workflow returns
DeleteTrigger ==
  /\ pc = "deleteTrigger"
  /\ UNCHANGED <<detectorVars, functionVars, sessionVars, writeCall, readFailed>>
  /\ \E applied \in BOOLEAN :
       doc' = IF applied THEN "removed" ELSE doc
  /\ isProcessingTrigger' = FALSE
  /\ pc' = "done"
  /\ UNCHANGED <<pickerInUse, currentBibFile, bibFile, cleanedBibtex,
                 existingKeys, existingBibTeXString, duplicates, action,
                 pending, outcome, choice, written, fileBefore,
                 existingRecords, exportedRecords, removedFields>>

\* statusBarManager.ts lines 193-222, the command zotero-cite.selectBibFile:
\* the dialog resolves, at any moment, and a selected file is set as the
\* current one
StatusBarSelectBibFile ==
  /\ UNCHANGED <<detectorVars, functionVars, sessionVars, writeCall, readFailed>>
  /\ \E selected \in BOOLEAN :
       currentBibFile' = (currentBibFile \/ selected)
  /\ UNCHANGED <<pc, isProcessingTrigger, pickerInUse, bibFile, doc,
                 cleanedBibtex, existingKeys, existingBibTeXString,
                 duplicates, action, pending, outcome, choice, written,
                 fileBefore, existingRecords, exportedRecords, removedFields>>

\* lines 146-159, the command zotero-cite.detectDuplicates: when the status
\* bar holds no file the user is asked for one, and a selected file is set
\* as the current one; the command reads the file and writes nothing
DetectDuplicatesInBibFile ==
  /\ ~currentBibFile
  /\ UNCHANGED <<detectorVars, functionVars, sessionVars, writeCall, readFailed>>
  /\ \E selected \in BOOLEAN :
       currentBibFile' = selected
  /\ UNCHANGED <<pc, isProcessingTrigger, pickerInUse, bibFile, doc,
                 cleanedBibtex, existingKeys, existingBibTeXString,
                 duplicates, action, pending, outcome, choice, written,
                 fileBefore, existingRecords, exportedRecords, removedFields>>

Next ==
  \/ TriggerDetected
  \/ CheckAvailability
  \/ InvokePicker
  \/ ExportBibTeX
  \/ SelectBibFile
  \/ ParseBibFile
  \/ ReadFile
  \/ ShowDuplicateDialog
  \/ AppendEntries
  \/ AppendEntriesWriteFile
  \/ WriteFile
  \/ ReplaceTrigger
  \/ HandleError
  \/ DeleteTrigger
  \/ StatusBarSelectBibFile
  \/ DetectDuplicatesInBibFile

Spec ==
  Init /\ [][Next]_vars

\* ------------------------------------------------------------------------
\* DuplicateDetector called on its own, on texts of the comparison records
\* ------------------------------------------------------------------------

\* the texts of at most MaxCompared records of a library, in its order
ComparedTexts(library) ==
  {TextOf([i \in 1..Len(q) |-> library[q[i]]]) :
     q \in OrderedIndexSeqs(MaxCompared, Len(library))}

\* the workflow has not started
WorkflowIdle ==
  /\ pc = "idle"
  /\ isProcessingTrigger = FALSE
  /\ pickerInUse = FALSE
  /\ currentBibFile = FALSE
  /\ existingRecords = <<>>
  /\ bibFile = NoFile
  /\ fileBefore = NoFile
  /\ doc = "trigger"
  /\ cleanedBibtex = <<>>
  /\ existingKeys = {}
  /\ existingBibTeXString = <<>>
  /\ duplicates = <<>>
  /\ action = "none"
  /\ pending = NoPending
  /\ outcome = "running"
  /\ choice = "none"
  /\ written = FALSE
  /\ exportedRecords = <<>>
  /\ removedFields = {}
  /\ writeCall = NoWriteCall
  /\ readFailed = FALSE

InitCompare ==
  /\ WorkflowIdle
  /\ SessionIdle
  /\ FunctionsIdle
  /\ newBibTeX \in ComparedTexts(ComparedIncoming)
  /\ existingBibTeX \in ComparedTexts(ComparedExisting)
  /\ newEntry = NoEntry
  /\ existingEntry = NoEntry
  /\ match = NoMatch
  /\ found = <<>>
  /\ called = "none"

\* compareEntries is called on a record of each text
CompareEntries ==
  /\ called = "none"
  /\ \E newEntries \in {parseBibTeX(newBibTeX)} :
       \E existingEntries \in {parseBibTeX(existingBibTeX)} :
         \E i \in 1..Len(newEntries) :
           \E j \in 1..Len(existingEntries) :
             /\ newEntry' = newEntries[i]
             /\ existingEntry' = existingEntries[j]
             /\ match' = compareEntries(newEntries[i], existingEntries[j])
  /\ called' = "compareEntries"
  /\ UNCHANGED <<newBibTeX, existingBibTeX, found>>
  /\ UNCHANGED <<workflowVars, functionVars, sessionVars>>

\* detectDuplicates is called on the two texts
DetectDuplicates ==
  /\ called = "none"
  /\ found' = detectDuplicates(newBibTeX, existingBibTeX)
  /\ called' = "detectDuplicates"
  /\ UNCHANGED <<newBibTeX, existingBibTeX, newEntry, existingEntry, match>>
  /\ UNCHANGED <<workflowVars, functionVars, sessionVars>>

NextCompare ==
  \/ CompareEntries
  \/ DetectDuplicates

SpecCompare ==
  InitCompare /\ [][NextCompare]_vars

\* ------------------------------------------------------------------------
\* compareEntries called on one incoming and one existing record
\* ------------------------------------------------------------------------

\* the texts of one record of a library
PairTexts(library) ==
  {TextOf(<<library[i]>>) : i \in 1..Len(library)}

InitPair ==
  /\ WorkflowIdle
  /\ SessionIdle
  /\ FunctionsIdle
  /\ newBibTeX \in PairTexts(PairIncoming)
  /\ existingBibTeX \in PairTexts(PairExisting)
  /\ newEntry = NoEntry
  /\ existingEntry = NoEntry
  /\ match = NoMatch
  /\ found = <<>>
  /\ called = "none"

NextPair ==
  CompareEntries

SpecPair ==
  InitPair /\ [][NextPair]_vars

\* ------------------------------------------------------------------------
\* calculateSimilarity and levenshteinDistance applied to two strings, and
\* the comparisons that report their result as the score of a match
\* ------------------------------------------------------------------------

\* the longest string given to calculateSimilarity
MaxStrLen == 4

\* the characters of the strings given to calculateSimilarity
SimilarityAlphabet ==
  {"a", "b"}

\* the strings given to calculateSimilarity
Strings ==
  UNION {[1..n -> SimilarityAlphabet] : n \in 0..MaxStrLen}

\* either two strings are given, or the texts of two records
InitSimilarity ==
  /\ WorkflowIdle
  /\ SessionIdle
  /\ \/ /\ strA \in Strings
        /\ strB \in Strings
        /\ newBibTeX = <<>>
        /\ existingBibTeX = <<>>
     \/ /\ strA = <<>>
        /\ strB = <<>>
        /\ newBibTeX \in PairTexts(PairIncoming)
        /\ existingBibTeX \in PairTexts(PairExisting)
  /\ distance = 0
  /\ simResult = One
  /\ parsed = <<>>
  /\ reparsed = <<>>
  /\ newEntry = NoEntry
  /\ existingEntry = NoEntry
  /\ match = NoMatch
  /\ found = <<>>
  /\ called = "none"

\* calculateSimilarity is called on the two strings
CalculateSimilarity ==
  /\ called = "none"
  /\ simResult' = calculateSimilarity(strA, strB)
  /\ called' = "calculateSimilarity"
  /\ UNCHANGED <<strA, strB, distance, parsed, reparsed>>
  /\ UNCHANGED <<newBibTeX, existingBibTeX, newEntry, existingEntry, match, found>>
  /\ UNCHANGED <<workflowVars, sessionVars>>

\* levenshteinDistance is called on the two strings
LevenshteinDistance ==
  /\ called = "none"
  /\ distance' = levenshteinDistance(strA, strB)
  /\ called' = "levenshteinDistance"
  /\ UNCHANGED <<strA, strB, simResult, parsed, reparsed>>
  /\ UNCHANGED <<newBibTeX, existingBibTeX, newEntry, existingEntry, match, found>>
  /\ UNCHANGED <<workflowVars, sessionVars>>

NextSimilarity ==
  \/ CalculateSimilarity
  \/ LevenshteinDistance
  \/ CompareEntries
  \/ DetectDuplicates

SpecSimilarity ==
  InitSimilarity /\ [][NextSimilarity]_vars

\* ------------------------------------------------------------------------
\* parseBibTeX applied to a text, and to its records joined again
\* ------------------------------------------------------------------------

\* the pieces of the texts given to parseBibTeX:
\*   1. an entry whose title is never closed:  @a{u1,\ntitle={U
\*   2. X2, a well-formed entry of two fields
\*   3. an entry without a key: its first field stands where the key should:  @a{title={T},\n}
\*   4. E4, a well-formed entry of one field
\*   5. text that is no entry:  hello
\*   6. A3, a title with a nested group that no comma follows
\*   7. a title with a nested group that a comma follows:  @a{g1,\ntitle={A {B}, C},\n}
\*   8. an entry with an empty key:  @a{,\ntitle={T},\n}
\*   9. X1, a well-formed entry whose last field has no comma after it
\*  10. a well-formed entry with a quoted title:  @a{q1,\ntitle="Q",\n}
\*  11. X3, a well-formed entry with an @ in a value
ParseLibrary ==
  <<<<"@","a","{","u","1",",","\n","t","i","t","l","e","=","{","U">>,
    X2,
    <<"@","a","{","t","i","t","l","e","=","{","T","}",",","\n","}">>,
    E4,
    <<"h","e","l","l","o">>,
    A3,
    <<"@","a","{","g","1",",","\n","t","i","t","l","e","=","{","A"," ","{",
      "B","}",","," ","C","}",",","\n","}">>,
    <<"@","a","{",",","\n","t","i","t","l","e","=","{","T","}",",","\n","}">>,
    X1,
    <<"@","a","{","q","1",",","\n","t","i","t","l","e","=","\"","Q","\"",",",
      "\n","}">>,
    X3>>

\* the most pieces of a text given to parseBibTeX
MaxParsed == 2

\* the text of the pieces q of the library, a blank line between two pieces
ParseText(q) ==
  TextOf([i \in 1..Len(q) |-> ParseLibrary[q[i]]])

\* the texts of at most MaxParsed pieces of the library, in its order
ParseTexts ==
  {ParseText(q) : q \in OrderedIndexSeqs(MaxParsed, Len(ParseLibrary))}

InitParse ==
  /\ WorkflowIdle
  /\ SessionIdle
  /\ FunctionsIdle
  /\ newBibTeX \in ParseTexts
  /\ existingBibTeX = <<>>
  /\ newEntry = NoEntry
  /\ existingEntry = NoEntry
  /\ match = NoMatch
  /\ found = <<>>
  /\ called = "none"

\* parseBibTeX is called on the text
ParseBibTeX ==
  /\ called = "none"
  /\ parsed' = parseBibTeX(newBibTeX)
  /\ called' = "parseBibTeX"
  /\ UNCHANGED <<strA, strB, distance, simResult, reparsed>>
  /\ UNCHANGED <<newBibTeX, existingBibTeX, newEntry, existingEntry, match, found>>
  /\ UNCHANGED <<workflowVars, sessionVars>>

\* the records are serialized as filterDuplicates does when it removes none
\* (lines 296-299: the rawText of each, joined by a blank line), and
\* parseBibTeX is called on the result
SerializeAndParse ==
  /\ called = "parseBibTeX"
  /\ reparsed' = parseBibTeX(join(RawTexts(parsed), NLNL))
  /\ called' = "serialized"
  /\ UNCHANGED <<strA, strB, distance, simResult, parsed>>
  /\ UNCHANGED <<newBibTeX, existingBibTeX, newEntry, existingEntry, match, found>>
  /\ UNCHANGED <<workflowVars, sessionVars>>

NextParse ==
  \/ ParseBibTeX
  \/ SerializeAndParse

SpecParse ==
  InitParse /\ [][NextParse]_vars

\* ------------------------------------------------------------------------
\* The records of a text, and what a resolution of the workflow wrote
\* ------------------------------------------------------------------------

\* one line of a text is read: a blank line ends the record being read
RecordsStep(line, st) ==
  IF trim(line) = <<>>
    THEN [records |-> IF st.lines # <<>>
                        THEN Append(st.records, join(st.lines, NL))
                        ELSE st.records,
          lines |-> <<>>]
    ELSE [records |-> st.records, lines |-> Append(st.lines, line)]

\* the records of a text, in order: its blocks of lines that are not blank
RecordsOf(text) ==
  Let1(split(text), LAMBDA lines :
    RecordsStep(<<>>, FoldRange(LAMBDA line, st : RecordsStep(line, st),
                                [records |-> <<>>, lines |-> <<>>],
                                lines, 1, Len(lines))).records)

\* the key a record is written with
KeyOf(record) ==
  trim(SubSeq(record, SkipNotIn(record, 1, {"{"}) + 1,
              SkipNotIn(record, 1, {","}) - 1))

\* the records of the .bib file when the workflow began
FileRecords ==
  RecordsOf(fileBefore)

\* the records the workflow was given to add to the file
IncomingRecords ==
  RecordsOf(cleanedBibtex)

MatchedIncomingKeys ==
  {duplicates[d].newEntry.key : d \in 1..Len(duplicates)}

MatchedExistingKeys ==
  {duplicates[d].existingEntry.key : d \in 1..Len(duplicates)}

Elements(seq) ==
  {seq[i] : i \in 1..Len(seq)}

\* the resolution has written the file: writeFile resolved and the workflow
\* is about to replace the trigger
Wrote ==
  pc = "replaceTrigger" /\ written

\* what the written file holds after the text the file held before
AfterExisting ==
  SubSeq(bibFile, Len(fileBefore) + 1, Len(bibFile))

\* what the file written by the replace decision holds before the incoming
\* text and the blank line that precedes it
BeforeIncoming ==
  SubSeq(bibFile, 1, Len(bibFile) - Len(cleanedBibtex) - 2)

\* the records the decision taken keeps
KeptRecords ==
  (IF action = "replace"
     THEN {r \in Elements(FileRecords) : KeyOf(r) \notin MatchedExistingKeys}
     ELSE Elements(FileRecords))
  \cup
  (IF action = "skip"
     THEN {r \in Elements(IncomingRecords) : KeyOf(r) \notin MatchedIncomingKeys}
     ELSE Elements(IncomingRecords))

\* ------------------------------------------------------------------------
\* C1
\* ------------------------------------------------------------------------

\* C1: whatever the resolution that writes (no match, skip, replace or keep
\* both) and whatever the two texts, each record of the written file is a
\* whole verbatim copy of an existing or of an incoming record, and no
\* record the decision keeps is missing from it.
C1_WholeRecordsOnly ==
  Wrote =>
    /\ Elements(RecordsOf(bibFile))
         \subseteq Elements(FileRecords) \cup Elements(IncomingRecords)
    /\ KeptRecords \subseteq Elements(RecordsOf(bibFile))

\* ------------------------------------------------------------------------
\* C2
\* ------------------------------------------------------------------------

\* C2: under skip the written file is the existing text, unchanged, followed
\* by exactly the incoming records whose key is not the incoming key of a
\* match.
C2_SkipAppendsUnmatched ==
  (Wrote /\ action = "skip") =>
    /\ IsPrefix(fileBefore, bibFile)
    /\ RecordsOf(AfterExisting)
         = SelectSeq(IncomingRecords,
                     LAMBDA r : KeyOf(r) \notin MatchedIncomingKeys)

\* ------------------------------------------------------------------------
\* C3
\* ------------------------------------------------------------------------

\* C3: under replace the written file holds no existing record whose key is
\* the existing key of a match, and holds the whole incoming text, unfiltered,
\* after the existing records that remain; incoming records that share a key
\* are all there.
C3_ReplaceDropsMatched ==
  (Wrote /\ action = "replace") =>
    /\ endsWith(bibFile, NLNL \o cleanedBibtex)
    /\ \A r \in Elements(RecordsOf(BeforeIncoming)) :
         r \in Elements(FileRecords) /\ KeyOf(r) \notin MatchedExistingKeys
    /\ RecordsOf(SubSeq(bibFile, Len(BeforeIncoming) + 1, Len(bibFile)))
         = IncomingRecords

\* C3: replace has written the file, two incoming records shared a key, an
\* existing record was matched and another one was not and remains
C3_Witness ==
  /\ Wrote
  /\ action = "replace"
  /\ Len(IncomingRecords) = 2
  /\ KeyOf(IncomingRecords[1]) = KeyOf(IncomingRecords[2])
  /\ \E r \in Elements(FileRecords) : KeyOf(r) \in MatchedExistingKeys
  /\ RecordsOf(BeforeIncoming) # <<>>

\* ------------------------------------------------------------------------
\* C4
\* ------------------------------------------------------------------------

\* C4: under replace every existing record that is not matched is in the
\* written file, byte for byte and in the order the file had, whatever the
\* record holds.
C4_ReplaceKeepsUnmatched ==
  (Wrote /\ action = "replace") =>
    SelectSeq(RecordsOf(BeforeIncoming), LAMBDA r : r \in Elements(FileRecords))
      = SelectSeq(FileRecords, LAMBDA r : KeyOf(r) \notin MatchedExistingKeys)

\* ------------------------------------------------------------------------
\* C5
\* ------------------------------------------------------------------------

\* C5: under keep both the written file is the existing text followed by the
\* whole incoming text as it is.
C5_KeepBothAppendsAll ==
  (Wrote /\ action = "keep-both") =>
    /\ IsPrefix(fileBefore, bibFile)
    /\ RecordsOf(AfterExisting) = IncomingRecords

\* ------------------------------------------------------------------------
\* C6
\* ------------------------------------------------------------------------

\* C6: when the user cancels the dialog, by its Cancel button or by
\* dismissing it, nothing is written, the file is what it was and no \cite
\* is inserted.
C6_CancelWritesNothing ==
  choice \in {"Cancel", "dismissed"} =>
    /\ ~written
    /\ bibFile = fileBefore
    /\ doc # "cite"
    /\ pc = "done"

\* C6: the dialog was shown for a match and dismissed
C6_Witness ==
  /\ choice = "dismissed"
  /\ Len(duplicates) > 0
  /\ outcome = "duplicates cancelled"

\* ------------------------------------------------------------------------
\* C7
\* ------------------------------------------------------------------------

\* C7: when no pair matches no decision is asked for, and the written file is
\* the existing text followed by all the incoming records.
C7_NoMatchAppendsAll ==
  (Wrote /\ Len(duplicates) = 0) =>
    /\ choice = "none"
    /\ IsPrefix(fileBefore, bibFile)
    /\ RecordsOf(AfterExisting) = IncomingRecords

\* ------------------------------------------------------------------------
\* The four dimensions of a comparison, stated of two parsed records
\* ------------------------------------------------------------------------

KeySatisfied(n, e) ==
  n.key = e.key

DoiSatisfied(n, e) ==
  /\ FDoi \in DOMAIN n.fields
  /\ FDoi \in DOMAIN e.fields
  /\ n.fields[FDoi] # <<>>
  /\ toLowerCase(n.fields[FDoi]) = toLowerCase(e.fields[FDoi])

NormalizedTitle(r) ==
  normalizeTitle(IF FTitle \in DOMAIN r.fields THEN r.fields[FTitle] ELSE <<>>)

TitleSimilarity(n, e) ==
  calculateSimilarity(NormalizedTitle(n), NormalizedTitle(e))

TitleSatisfied(n, e) ==
  /\ NormalizedTitle(n) # <<>>
  /\ NormalizedTitle(e) # <<>>
  /\ TitleSimilarity(n, e).num * 100 > 85 * TitleSimilarity(n, e).den

NormalizedAuthor(r) ==
  normalizeAuthor(IF FAuthor \in DOMAIN r.fields THEN r.fields[FAuthor] ELSE <<>>)

YearOf(r) ==
  IF FYear \in DOMAIN r.fields THEN <<"year", r.fields[FYear]>> ELSE <<"no year">>

AuthorYearSatisfied(n, e) ==
  /\ NormalizedAuthor(n) # <<>>
  /\ NormalizedAuthor(e) # <<>>
  /\ YearOf(n) = YearOf(e)
  /\ calculateSimilarity(NormalizedAuthor(n), NormalizedAuthor(e)).num * 100
       > 80 * calculateSimilarity(NormalizedAuthor(n), NormalizedAuthor(e)).den

FirstSatisfied(n, e) ==
  IF KeySatisfied(n, e) THEN "key"
  ELSE IF DoiSatisfied(n, e) THEN "doi"
  ELSE IF TitleSatisfied(n, e) THEN "title"
  ELSE IF AuthorYearSatisfied(n, e) THEN "author-year"
  ELSE "null"

\* ------------------------------------------------------------------------
\* C8
\* ------------------------------------------------------------------------

\* C8: compareEntries reports one match at most, of the first satisfied
\* dimension in the order key, doi, title, author-year: equal keys give kind
\* key with score 1.0 whatever the other fields are, and a pair that satisfies
\* both doi and title is reported as doi.
C8_FirstSatisfiedDimension ==
  called = "compareEntries" =>
    /\ match.matchType = FirstSatisfied(newEntry, existingEntry)
    /\ match.matchType # "null" =>
         match.newEntry = newEntry /\ match.existingEntry = existingEntry
    /\ KeySatisfied(newEntry, existingEntry) =>
         match.matchType = "key" /\ match.similarity = [num |-> 1, den |-> 1]
    /\ (/\ ~KeySatisfied(newEntry, existingEntry)
        /\ DoiSatisfied(newEntry, existingEntry)
        /\ TitleSatisfied(newEntry, existingEntry)) =>
         match.matchType = "doi"

\* C8: a pair with different keys, the same DOI and the same title has been
\* compared and reported as doi
C8_Witness ==
  /\ called = "compareEntries"
  /\ ~KeySatisfied(newEntry, existingEntry)
  /\ DoiSatisfied(newEntry, existingEntry)
  /\ TitleSatisfied(newEntry, existingEntry)
  /\ match.matchType = "doi"

\* ------------------------------------------------------------------------
\* C9
\* ------------------------------------------------------------------------

\* the matches of found that are of the pair (n, e)
MatchesOf(n, e) ==
  {k \in 1..Len(found) : found[k].newEntry = n /\ found[k].existingEntry = e}

\* the place of a record among the records parsed from a text
PlaceIn(entries, r) ==
  CHOOSE i \in 1..Len(entries) : entries[i] = r

\* match k of found comes before match l in the order of the incoming
\* records, then of the existing records
InPairOrder(ns, es, k, l) ==
  \/ PlaceIn(ns, found[k].newEntry) < PlaceIn(ns, found[l].newEntry)
  \/ /\ PlaceIn(ns, found[k].newEntry) = PlaceIn(ns, found[l].newEntry)
     /\ PlaceIn(es, found[k].existingEntry) < PlaceIn(es, found[l].existingEntry)

DetectedAsClaimed(ns, es) ==
  /\ Len(found) <= Len(ns) * Len(es)
  /\ \A k \in 1..Len(found) :
       \E i \in 1..Len(ns) : \E j \in 1..Len(es) :
         found[k].newEntry = ns[i] /\ found[k].existingEntry = es[j]
  /\ \A i \in 1..Len(ns) : \A j \in 1..Len(es) :
       /\ Cardinality(MatchesOf(ns[i], es[j]))
            = IF FirstSatisfied(ns[i], es[j]) # "null" THEN 1 ELSE 0
       /\ \A k \in MatchesOf(ns[i], es[j]) :
            found[k].matchType = FirstSatisfied(ns[i], es[j])
  /\ \A k, l \in 1..Len(found) : k < l => InPairOrder(ns, es, k, l)

\* C9: detectDuplicates returns exactly one match for each pair of an incoming
\* and an existing parsed record that satisfies a dimension and none for a
\* pair that satisfies none, so no more than |incoming| x |existing| matches,
\* ordered by incoming record, then by existing record.
C9_OneMatchPerPair ==
  called = "detectDuplicates" =>
    DetectedAsClaimed(parseBibTeX(newBibTeX), parseBibTeX(existingBibTeX))

\* C9: three matches have been returned for two incoming and two existing
\* records: the first incoming record matches the second existing record
\* only, and the second incoming record matches both existing records, the
\* first of them by its key and the second by its title, in that order
C9_Witness ==
  /\ called = "detectDuplicates"
  /\ Len(found) = 3
  /\ Len(parseBibTeX(newBibTeX)) = 2
  /\ Len(parseBibTeX(existingBibTeX)) = 2
  /\ found[1].newEntry = parseBibTeX(newBibTeX)[1]
  /\ found[1].existingEntry = parseBibTeX(existingBibTeX)[2]
  /\ found[2].newEntry = parseBibTeX(newBibTeX)[2]
  /\ found[2].existingEntry = parseBibTeX(existingBibTeX)[1]
  /\ found[2].matchType = "key"
  /\ found[3].newEntry = parseBibTeX(newBibTeX)[2]
  /\ found[3].existingEntry = parseBibTeX(existingBibTeX)[2]
  /\ found[3].matchType = "title"

\* ------------------------------------------------------------------------
\* C10
\* ------------------------------------------------------------------------

\* the title of a record as written in its field
TitleOf(r) ==
  IF FTitle \in DOMAIN r.fields THEN r.fields[FTitle] ELSE <<>>

\* the letters, digits and white space of a title, in lower case: two titles
\* that differ only in punctuation, case or braces have the same
LettersOf(title) ==
  SelectSeq(toLowerCase(title),
            LAMBDA c : c \in (WordChars \ {"_"}) \cup SpaceChars)

DifferOnlyInPunctuation(n, e) ==
  /\ LettersOf(TitleOf(n)) = LettersOf(TitleOf(e))
  /\ \E i \in 1..Len(TitleOf(n)) :
       TitleOf(n)[i] \in WordChars \ {"_"}

\* C10: a pair not matched by key or DOI is reported as title exactly when
\* both normalized titles are non-empty and their similarity is strictly
\* greater than 0.85; the score is that similarity; titles that differ only
\* in punctuation, case or LaTeX braces normalize to equal strings and match.
C10_TitleMatch ==
  (/\ called = "compareEntries"
   /\ ~KeySatisfied(newEntry, existingEntry)
   /\ ~DoiSatisfied(newEntry, existingEntry)) =>
    /\ match.matchType = "title" <=> TitleSatisfied(newEntry, existingEntry)
    /\ match.matchType = "title" =>
         match.similarity = TitleSimilarity(newEntry, existingEntry)
    /\ DifferOnlyInPunctuation(newEntry, existingEntry) =>
         /\ NormalizedTitle(newEntry) = NormalizedTitle(existingEntry)
         /\ match.matchType = "title"

\* ------------------------------------------------------------------------
\* C11
\* ------------------------------------------------------------------------

\* the similarity of the normalized authors of two records
AuthorSimilarity(n, e) ==
  calculateSimilarity(NormalizedAuthor(n), NormalizedAuthor(e))

\* both records have a year, and the two values are the same string
SameYearValue(n, e) ==
  /\ FYear \in DOMAIN n.fields
  /\ FYear \in DOMAIN e.fields
  /\ n.fields[FYear] = e.fields[FYear]

\* C11: a pair not matched by key, DOI or title is reported as author-year
\* exactly when both normalized authors are non-empty, the two year values
\* are equal as strings and the similarity of the authors is strictly
\* greater than 0.80; the score is that similarity.
C11_AuthorYearMatch ==
  (/\ called = "compareEntries"
   /\ ~KeySatisfied(newEntry, existingEntry)
   /\ ~DoiSatisfied(newEntry, existingEntry)
   /\ ~TitleSatisfied(newEntry, existingEntry)) =>
    /\ match.matchType = "author-year" <=>
         /\ NormalizedAuthor(newEntry) # <<>>
         /\ NormalizedAuthor(existingEntry) # <<>>
         /\ SameYearValue(newEntry, existingEntry)
         /\ AuthorSimilarity(newEntry, existingEntry).num * 100
              > 80 * AuthorSimilarity(newEntry, existingEntry).den
    /\ match.matchType = "author-year" =>
         match.similarity = AuthorSimilarity(newEntry, existingEntry)

\* ------------------------------------------------------------------------
\* C12
\* ------------------------------------------------------------------------

\* the record has a doi field and its value is not empty
HasDoi(r) ==
  /\ FDoi \in DOMAIN r.fields
  /\ r.fields[FDoi] # <<>>

\* C12: a pair with different keys is reported as doi with score 1.0 exactly
\* when both records have a non-empty doi field and the two values are equal
\* ignoring letter case; a record with a missing or empty doi never produces
\* a doi match.
C12_DoiMatch ==
  (called = "compareEntries" /\ newEntry.key # existingEntry.key) =>
    /\ match.matchType = "doi" <=>
         /\ HasDoi(newEntry)
         /\ HasDoi(existingEntry)
         /\ toLowerCase(newEntry.fields[FDoi])
              = toLowerCase(existingEntry.fields[FDoi])
    /\ match.matchType = "doi" => match.similarity = [num |-> 1, den |-> 1]
    /\ (~HasDoi(newEntry) \/ ~HasDoi(existingEntry)) => match.matchType # "doi"

\* C12: two records with different keys whose DOIs differ in letter case
\* only have been compared and reported as doi with score 1.0
C12_Witness ==
  /\ called = "compareEntries"
  /\ newEntry.key # existingEntry.key
  /\ HasDoi(newEntry)
  /\ HasDoi(existingEntry)
  /\ newEntry.fields[FDoi] # existingEntry.fields[FDoi]
  /\ match.matchType = "doi"
  /\ match.similarity = [num |-> 1, den |-> 1]

\* ------------------------------------------------------------------------
\* C13
\* ------------------------------------------------------------------------

\* the author of a record as written in its field
AuthorOf(r) ==
  IF FAuthor \in DOMAIN r.fields THEN r.fields[FAuthor] ELSE <<>>

\* "Jane Doe and John Roe"
JaneDoeAndJohnRoe ==
  <<"J","a","n","e"," ","D","o","e"," ","a","n","d"," ","J","o","h","n"," ",
    "R","o","e">>

\* "J. Doe, J. Roe"
JDoeJRoe ==
  <<"J","."," ","D","o","e",","," ","J","."," ","R","o","e">>

\* "2019"
Year2019 ==
  <<"2","0","1","9">>

\* compareEntries was called on the two records of the scenario: the same
\* year 2019, different keys, no DOI or title match, and the two authors
ScenarioCompared ==
  /\ called = "compareEntries"
  /\ ~KeySatisfied(newEntry, existingEntry)
  /\ ~DoiSatisfied(newEntry, existingEntry)
  /\ ~TitleSatisfied(newEntry, existingEntry)
  /\ YearOf(newEntry) = <<"year", Year2019>>
  /\ YearOf(existingEntry) = <<"year", Year2019>>
  /\ AuthorOf(newEntry) = JaneDoeAndJohnRoe
  /\ AuthorOf(existingEntry) = JDoeJRoe

\* C13 as stated: the two records of the scenario are reported as a match of
\* kind author-year, the similarity of their normalized authors exceeding
\* 0.80.
C13_ScenarioMatches ==
  ScenarioCompared =>
    /\ match.matchType = "author-year"
    /\ match.similarity.num * 100 > 80 * match.similarity.den

\* C13 amended: the two records of the scenario are reported as no match,
\* because their authors normalize to "jane doe john roe" and "j doe j roe",
\* at edit distance 6 of each other, and the similarity 11/17 of these does
\* not exceed 0.80.
C13_ScenarioDoesNotMatch ==
  ScenarioCompared =>
    /\ match = NoMatch
    /\ Len(NormalizedAuthor(newEntry)) = 17
    /\ Len(NormalizedAuthor(existingEntry)) = 11
    /\ AuthorSimilarity(newEntry, existingEntry).num * 17
         = 11 * AuthorSimilarity(newEntry, existingEntry).den

\* C13: the two records of the scenario have been compared
C13_Witness ==
  ScenarioCompared /\ match.matchType = "null"

\* ------------------------------------------------------------------------
\* C14
\* ------------------------------------------------------------------------

\* the least of a non-empty set of numbers
Least(S) ==
  CHOOSE x \in S : \A y \in S : x <= y

\* the classic Levenshtein distance of two strings, by its recurrence on the
\* first characters: an insertion, a deletion and a substitution cost 1 each
RECURSIVE Lev(_, _)
Lev(a, b) ==
  IF a = <<>> THEN Len(b)
  ELSE IF b = <<>> THEN Len(a)
  ELSE Least({Lev(Tail(a), b) + 1,
              Lev(a, Tail(b)) + 1,
              Lev(Tail(a), Tail(b)) + (IF Head(a) = Head(b) THEN 0 ELSE 1)})

\* the ratio sim is the number 1 - d / m
IsOneMinus(sim, d, m) ==
  sim.den > 0 /\ sim.num * m = (m - d) * sim.den

\* C14: calculateSimilarity(a, b) is 1 - lev(a, b) / max(len(a), len(b)) with
\* lev the classic Levenshtein distance, which is what levenshteinDistance
\* computes; it is 1.0 when a = b, both empty included, and 0.0 when exactly
\* one of them is empty.
C14_SimilarityIsLevenshteinRatio ==
  /\ called = "levenshteinDistance" => distance = Lev(strA, strB)
  /\ called = "calculateSimilarity" =>
       /\ (strA # <<>> \/ strB # <<>>) =>
            IsOneMinus(simResult, Lev(strA, strB), Max(Len(strA), Len(strB)))
       /\ strA = strB => IsOneMinus(simResult, 0, 1)
       /\ ((strA = <<>>) # (strB = <<>>)) => IsOneMinus(simResult, 1, 1)

\* C14: calculateSimilarity has been called on two different non-empty
\* strings that have a part in common
C14_Witness ==
  /\ called = "calculateSimilarity"
  /\ strA # <<>>
  /\ strB # <<>>
  /\ Len(strA) # Len(strB)
  /\ 0 < simResult.num
  /\ simResult.num < simResult.den

\* ------------------------------------------------------------------------
\* C15
\* ------------------------------------------------------------------------

\* two ratios are the same number
SameRatio(r, t) ==
  r.num * t.den = t.num * r.den

\* C15: calculateSimilarity(a, b) = calculateSimilarity(b, a) for all strings
\* a and b, so the kind and score of the match of two records do not depend
\* on which of them is the incoming one.
C15_SimilaritySymmetric ==
  /\ called = "calculateSimilarity" =>
       SameRatio(simResult, calculateSimilarity(strB, strA))
  /\ called = "compareEntries" =>
       /\ compareEntries(existingEntry, newEntry).matchType = match.matchType
       /\ SameRatio(compareEntries(existingEntry, newEntry).similarity,
                    match.similarity)

\* C15: calculateSimilarity has been called on two strings of different
\* lengths that have a part in common
C15_Witness ==
  /\ called = "calculateSimilarity"
  /\ Len(strA) < Len(strB)
  /\ strA # <<>>
  /\ simResult.num > 0

\* ------------------------------------------------------------------------
\* C16
\* ------------------------------------------------------------------------

\* the ratio is a number of [0, 1]
InUnitInterval(r) ==
  /\ r.den > 0
  /\ 0 <= r.num
  /\ r.num <= r.den

\* C16: calculateSimilarity(a, b) lies in [0, 1] for all strings a and b, the
\* edit distance never exceeds max(len(a), len(b)), and every score of a
\* match reported by the detection lies in [0, 1].
C16_SimilarityInUnitInterval ==
  /\ called = "calculateSimilarity" => InUnitInterval(simResult)
  /\ called = "levenshteinDistance" =>
       0 <= distance /\ distance <= Max(Len(strA), Len(strB))
  /\ (called = "compareEntries" /\ match # NoMatch) =>
       InUnitInterval(match.similarity)
  /\ called = "detectDuplicates" =>
       \A k \in 1..Len(found) : InUnitInterval(found[k].similarity)

\* C16: levenshteinDistance has been called on two non-empty strings of
\* different lengths and returned the length of the longer, and
\* calculateSimilarity would return 0 for them
C16_Witness ==
  /\ called = "levenshteinDistance"
  /\ strA # <<>>
  /\ strB # <<>>
  /\ Len(strA) # Len(strB)
  /\ distance = Max(Len(strA), Len(strB))

\* ------------------------------------------------------------------------
\* The entries of a text by their braces
\* ------------------------------------------------------------------------

\* the pieces a text given to parseBibTeX is made of
PiecesOf(text) ==
  Let1(CHOOSE q \in OrderedIndexSeqs(MaxParsed, Len(ParseLibrary)) :
         ParseText(q) = text,
       LAMBDA q : [i \in 1..Len(q) |-> ParseLibrary[q[i]]])

\* one character is read while looking for the brace that closes a group:
\* depth is the number of groups open, at the index of the closing brace
ClosingBraceStep(s, k, st) ==
  IF st.at # 0 THEN st
  ELSE IF s[k] = "{" THEN [st EXCEPT !.depth = @ + 1]
  ELSE IF s[k] = "}"
    THEN IF st.depth = 1 THEN [st EXCEPT !.at = k]
         ELSE [st EXCEPT !.depth = @ - 1]
  ELSE st

\* the index of the brace that closes the group opened at index i of s, 0
\* when the group is never closed
ClosingBrace(s, i) ==
  FoldRange(LAMBDA k, st : ClosingBraceStep(s, k, st),
            [depth |-> 1, at |-> 0], Indices(Len(s)), i + 1, Len(s)).at

\* the index of the brace that opens an entry: it follows the type
EntryBrace(piece) ==
  SkipIn(piece, 2, WordChars)

\* the key of an entry: what stands between its brace and the first comma
EntryKey(piece) ==
  SubSeq(piece, EntryBrace(piece) + 1,
         SkipNotIn(piece, EntryBrace(piece) + 1, {","}) - 1)

\* the piece is an entry @type{key, ...} with a key and balanced braces, the
\* last of which closes the entry
WellFormedEntry(piece) ==
  /\ Len(piece) > 0
  /\ piece[1] = "@"
  /\ EntryBrace(piece) > 2
  /\ EntryBrace(piece) <= Len(piece)
  /\ piece[EntryBrace(piece)] = "{"
  /\ ClosingBrace(piece, EntryBrace(piece)) = Len(piece)
  /\ EntryKey(piece) # <<>>
  /\ \A k \in 1..Len(EntryKey(piece)) :
       EntryKey(piece)[k] \notin SpaceChars \cup {"=", "{", "}"}

\* the index of the character that opens the value of a field of an entry
ValueOpening(piece, name) ==
  FirstIndex(1, Len(piece), LAMBDA j : MatchAt(piece, name \o <<"=">>, j))
    + Len(name) + 1

\* the value of a field of a well-formed entry: what stands between the
\* brace after the = and the brace that closes it, or between two quotes
BalancedValue(piece, name) ==
  Let1(ValueOpening(piece, name), LAMBDA o :
    IF piece[o] = "{"
      THEN trim(SubSeq(piece, o + 1, ClosingBrace(piece, o) - 1))
      ELSE trim(SubSeq(piece, o + 1, SkipNotIn(piece, o + 1, {"\""}) - 1)))

\* the records are those of the entries, each with the text of its entry up
\* to the closing brace and with the whole value of each of its fields
ParsedByBraces(records, pieces) ==
  /\ Len(records) = Len(pieces)
  /\ \A k \in 1..Len(records) :
       /\ trim(records[k].rawText) = pieces[k]
       /\ \A name \in DOMAIN records[k].fields :
            records[k].fields[name] = BalancedValue(pieces[k], name)

\* ------------------------------------------------------------------------
\* C17
\* ------------------------------------------------------------------------

\* C17: parseBibTeX finds the end of an entry and of each field value by
\* tracking brace nesting: a value that holds a closing brace or a nested
\* group, also one followed by a comma, neither ends the entry early nor is
\* cut short, and the text of the record ends at the balanced closing brace
\* of the entry.
C17_BraceNestingTracked ==
  (/\ called = "parseBibTeX"
   /\ \A k \in 1..Len(PiecesOf(newBibTeX)) :
        WellFormedEntry(PiecesOf(newBibTeX)[k])) =>
    ParsedByBraces(parsed, PiecesOf(newBibTeX))

\* ------------------------------------------------------------------------
\* C18
\* ------------------------------------------------------------------------

\* the keys of the well-formed entries of a text, in its order
WellFormedKeys(text) ==
  Let1(SelectSeq(PiecesOf(text), LAMBDA piece : WellFormedEntry(piece)),
       LAMBDA entries : [k \in 1..Len(entries) |-> EntryKey(entries[k])])

\* C18: parseBibTeX never throws: it returns no record for empty text or
\* text that holds no entry, and for text that mixes well-formed and
\* malformed entries (unterminated braces, missing key) a record for every
\* well-formed entry and none for a malformed one.
C18_MalformedEntriesSkipped ==
  called = "parseBibTeX" =>
    [k \in 1..Len(parsed) |-> parsed[k].key] = WellFormedKeys(newBibTeX)

\* ------------------------------------------------------------------------
\* C19
\* ------------------------------------------------------------------------

\* the text filterDuplicates makes of records it removes none of
Serialized(records) ==
  join(RawTexts(records), NLNL)

\* C19 as stated: serializing a parsed record set and parsing the result
\* yields the same sequence of records, with the same keys, fields and
\* rawText, so serializing again gives the same text.
C19_RoundTripFixedPoint ==
  called = "serialized" =>
    /\ reparsed = parsed
    /\ Serialized(reparsed) = Serialized(parsed)

\* a text without the line breaks at its end
WithoutLineBreaks(s) ==
  SubSeq(s, 1, BackIn(s, Len(s), {"\n"}))

\* C19 amended: serializing a parsed record set and parsing the result yields
\* the same sequence of records, with the same keys, types and fields, and
\* with the same rawText up to the line breaks at its end: every record
\* except the last has one more of them, and the last has none; serializing
\* again gives another text when there are two records or more.
C19_RoundTripUpToLineBreaks ==
  called = "serialized" =>
    /\ Len(reparsed) = Len(parsed)
    /\ \A k \in 1..Len(parsed) :
         /\ reparsed[k].key = parsed[k].key
         /\ reparsed[k].type = parsed[k].type
         /\ reparsed[k].fields = parsed[k].fields
         /\ reparsed[k].rawText =
              IF k < Len(parsed) THEN parsed[k].rawText \o NL
              ELSE WithoutLineBreaks(parsed[k].rawText)
    /\ Len(parsed) >= 2 => Serialized(reparsed) # Serialized(parsed)

\* C19: two records with fields have been serialized and parsed again, and
\* the rawText of the first is not what it was
C19_Witness ==
  /\ called = "serialized"
  /\ Len(parsed) = 2
  /\ Len(reparsed) = 2
  /\ DOMAIN parsed[1].fields # {}
  /\ DOMAIN parsed[2].fields # {}
  /\ reparsed[1].rawText # parsed[1].rawText

\* ------------------------------------------------------------------------
\* C20
\* ------------------------------------------------------------------------

\* C20: when the .bib file does not exist the workflow takes it for empty
\* text without records and does not fail: the detection finds no match, the
\* file is created with all the incoming records, and the citation is
\* inserted when the trigger can be replaced.
C20_MissingFileIsEmptyText ==
  [][fileBefore = NoFile =>
       /\ pc = "readFile" =>
            /\ outcome' # "error"
            /\ duplicates' = <<>>
            /\ pc' = "appendEntries"
            /\ pending'.bibtexEntries = cleanedBibtex
       /\ (pc = "appendEntries" /\ pc' = "replaceTrigger") =>
            RecordsOf(bibFile') = RecordsOf(cleanedBibtex)
       /\ (pc = "replaceTrigger" /\ outcome' # "error") =>
            doc' = "cite"]_vars

\* ------------------------------------------------------------------------
\* The session: triggers and commands arrive while a workflow runs and while
\* the status bar manager checks the connection
\* ------------------------------------------------------------------------

\* the workflows one session starts
MaxWorkflows == 2

\* handleTriggerDetected stands between its guard and its return
InProgress ==
  pc \notin {"idle", "done"}

\* a trigger, timer tick or command of this kind arrives
Arrives(kind) ==
  event' = [kind |-> kind, alt |-> 1 - event.alt]

\* the .bib file of the session holds X1; Zotero exports N3, cleaned of the
\* default fields: N3 matches nothing in the file until a workflow has
\* appended it, and is a duplicate by its key in the workflows after that one
SessionExports ==
  {<<N3>>}

\* statusBarManager.ts lines 43 and 49-51: the constructor has called
\* checkZoteroConnection, whose request is outstanding; no .bib file is
\* configured
InitSession ==
  /\ CallsIdle
  /\ DetectorIdle
  /\ FunctionsIdle
  /\ pc = "idle"
  /\ isProcessingTrigger = FALSE
  /\ pickerInUse = FALSE
  /\ currentBibFile = FALSE
  /\ existingRecords = <<X1>>
  /\ bibFile = TextOf(<<X1>>)
  /\ fileBefore = bibFile
  /\ doc = "trigger"
  /\ cleanedBibtex = <<>>
  /\ existingKeys = {}
  /\ existingBibTeXString = <<>>
  /\ duplicates = <<>>
  /\ action = "none"
  /\ pending = NoPending
  /\ outcome = "running"
  /\ choice = "none"
  /\ written = FALSE
  /\ exportedRecords = <<>>
  /\ removedFields = {}
  /\ writeCall = NoWriteCall
  /\ readFailed = FALSE
  /\ isCheckingConnection = TRUE
  /\ zoteroConnected = FALSE
  /\ monitorRequests = 1
  /\ manualCheck = "none"
  /\ shownConnected = FALSE
  /\ completedSince = FALSE
  /\ commandAwaiting = FALSE
  /\ started = 0
  /\ event = NoEvent

\* handleTriggerDetected without its guard: every call starts a workflow
TriggerArrivesUnguarded ==
  /\ UNCHANGED <<detectorVars, functionVars>>
  /\ UNCHANGED <<isCheckingConnection, zoteroConnected, monitorRequests,
                 manualCheck, shownConnected, completedSince,
                 commandAwaiting, callVars>>
  /\ started < MaxWorkflows
  /\ Arrives("trigger accepted")
  /\ started' = started + 1
  /\ isProcessingTrigger' = TRUE
  /\ pc' = "checkAvailability"
  /\ doc' = "trigger"
  /\ fileBefore' = bibFile
  /\ cleanedBibtex' = <<>>
  /\ existingKeys' = {}
  /\ existingBibTeXString' = <<>>
  /\ duplicates' = <<>>
  /\ action' = "none"
  /\ pending' = NoPending
  /\ outcome' = "running"
  /\ choice' = "none"
  /\ written' = FALSE
  /\ exportedRecords' = <<>>
  /\ removedFields' = {}
  /\ readFailed' = FALSE
  /\ UNCHANGED <<pickerInUse, currentBibFile, bibFile, existingRecords,
                 writeCall>>

\* extension.ts lines 86-121 and 125-128, zoteroApiClient.ts lines 273-282,
\* and the guard of handleTriggerDetected, lines 224-229: the command or the
\* change listener calls handleTriggerDetected, which returns at once when a
\* workflow is in progress and otherwise sets the flag and asks whether
\* Zotero is available; the trigger is the one just typed
TriggerArrives ==
  /\ UNCHANGED <<detectorVars, functionVars>>
  /\ UNCHANGED <<isCheckingConnection, zoteroConnected, monitorRequests,
                 manualCheck, shownConnected, completedSince,
                 commandAwaiting, callVars>>
  /\ IF isProcessingTrigger
       THEN /\ Arrives("trigger ignored")
            /\ UNCHANGED <<workflowVars, started>>
       ELSE /\ started < MaxWorkflows
            /\ Arrives("trigger accepted")
            /\ started' = started + 1
            /\ isProcessingTrigger' = TRUE
            /\ pc' = "checkAvailability"
            /\ doc' = "trigger"
            /\ fileBefore' = bibFile
            /\ cleanedBibtex' = <<>>
            /\ existingKeys' = {}
            /\ existingBibTeXString' = <<>>
            /\ duplicates' = <<>>
            /\ action' = "none"
            /\ pending' = NoPending
            /\ outcome' = "running"
            /\ choice' = "none"
            /\ written' = FALSE
            /\ exportedRecords' = <<>>
            /\ removedFields' = {}
            /\ readFailed' = FALSE
            /\ UNCHANGED <<pickerInUse, currentBibFile, bibFile,
                           existingRecords, writeCall>>

\* statusBarManager.ts lines 53-55 and 62-69: the timer calls
\* checkZoteroConnection, which returns at once when a check is in flight or
\* the picker in use, and otherwise sets its flag and sends the request
CheckZoteroConnection ==
  /\ UNCHANGED <<workflowVars, detectorVars, functionVars, callVars>>
  /\ UNCHANGED <<zoteroConnected, manualCheck, shownConnected, completedSince,
                 commandAwaiting, started>>
  /\ IF isCheckingConnection \/ pickerInUse
       THEN /\ Arrives("check skipped")
            /\ UNCHANGED <<isCheckingConnection, monitorRequests>>
       ELSE /\ Arrives("check sent")
            /\ isCheckingConnection' = TRUE
            /\ monitorRequests' = monitorRequests + 1

\* statusBarManager.ts lines 178-188 and 62-69: the command calls
\* checkZoteroConnection; when that returns at once the message is shown from
\* the status the manager holds, otherwise the request is sent and awaited
ManualConnectionCheck ==
  /\ UNCHANGED <<workflowVars, detectorVars, functionVars, callVars>>
  /\ UNCHANGED <<zoteroConnected, started>>
  /\ completedSince' = FALSE
  /\ IF isCheckingConnection \/ pickerInUse
       THEN /\ Arrives("command skipped")
            /\ manualCheck' = "shown"
            /\ shownConnected' = zoteroConnected
            /\ UNCHANGED <<isCheckingConnection, monitorRequests,
                           commandAwaiting>>
       ELSE /\ Arrives("command sent")
            /\ manualCheck' = "awaiting"
            /\ commandAwaiting' = TRUE
            /\ isCheckingConnection' = TRUE
            /\ monitorRequests' = monitorRequests + 1
            /\ UNCHANGED shownConnected

\* statusBarManager.ts lines 70-77 and 180-187: the availability request of
\* the manager resolves, the status is set and the flag cleared; the command
\* that awaited it shows its message
ConnectionCheckResolves ==
  /\ monitorRequests > 0
  /\ UNCHANGED <<workflowVars, detectorVars, functionVars, callVars>>
  /\ UNCHANGED <<started, event>>
  /\ \E isConnected \in BOOLEAN :
       /\ zoteroConnected' = isConnected
       /\ IF commandAwaiting
            THEN /\ manualCheck' = "shown"
                 /\ shownConnected' = isConnected
                 /\ completedSince' = TRUE
            ELSE UNCHANGED <<manualCheck, shownConnected, completedSince>>
  /\ commandAwaiting' = FALSE
  /\ isCheckingConnection' = FALSE
  /\ monitorRequests' = monitorRequests - 1

\* exportBibTeX resolves with one of the session's exports, or rejects
SessionExportBibTeX ==
  /\ ExportBibTeX
  /\ exportedRecords' \in SessionExports \cup {<<>>}
  /\ removedFields' \in {{}, DEFAULT_FIELDS_TO_REMOVE}
  /\ (exportedRecords' # <<>>) => (removedFields' = DEFAULT_FIELDS_TO_REMOVE)

NextSession ==
  \/ TriggerArrives
  \/ CheckAvailability
  \/ InvokePicker
  \/ SessionExportBibTeX
  \/ SelectBibFile
  \/ ParseBibFile
  \/ ReadFile
  \/ ShowDuplicateDialog
  \/ AppendEntries
  \/ AppendEntriesWriteFile
  \/ WriteFile
  \/ ReplaceTrigger
  \/ HandleError
  \/ DeleteTrigger
  \/ StatusBarSelectBibFile
  \/ DetectDuplicatesInBibFile
  \/ CheckZoteroConnection
  \/ ManualConnectionCheck
  \/ ConnectionCheckResolves

SpecSession ==
  InitSession /\ [][NextSession]_vars

\* ------------------------------------------------------------------------
\* C21
\* ------------------------------------------------------------------------

\* a call of handleTriggerDetected, from the change listener or the command
TriggerStep ==
  /\ event' # event
  /\ event'.kind \in {"trigger ignored", "trigger accepted"}

\* C21: at most one handleTriggerDetected is in progress: a trigger that
\* arrives while a workflow stands between its guard and its return, at any
\* await and also during the workflow's own edits, starts no workflow, is not
\* kept for later, sends no request and writes no file; the position of the
\* running workflow, its data, the .bib file and the requests of the status
\* bar manager are as they were.
C21_OneWorkflowAtATime ==
  [][(TriggerStep /\ InProgress) =>
       /\ event'.kind = "trigger ignored"
       /\ UNCHANGED workflowVars
       /\ UNCHANGED <<started, monitorRequests, isCheckingConnection>>]_vars

\* a trigger arrived while the workflow, having written the file, awaited
\* the edit that replaces the trigger
C21_Witness ==
  /\ event.kind = "trigger ignored"
  /\ pc = "replaceTrigger"
  /\ written
  /\ started = 1

\* ------------------------------------------------------------------------
\* C22
\* ------------------------------------------------------------------------

\* the ways a workflow ends because the user cancelled or a step failed
CancelledOrFailed ==
  {"picker cancelled", "selection cancelled", "duplicates cancelled", "error"}

\* C22: a workflow in which the user selected at least one reference, no
\* step failed and the user did not cancel has, when it ends, replaced the
\* trigger by the citation of the selected keys, whichever of skip, replace
\* and keep both was decided and however many of the selected entries were
\* already in the file.
C22_CompletedWorkflowCites ==
  (pc = "done" /\ outcome \notin CancelledOrFailed) => doc = "cite"

\* ------------------------------------------------------------------------
\* C23
\* ------------------------------------------------------------------------

\* the ways a workflow ends because the user cancelled
UserCancelled ==
  {"picker cancelled", "selection cancelled", "duplicates cancelled"}

\* C23: when the user cancels, in the picker, in the selection of the .bib
\* file or with Cancel in the duplicate dialog, the workflow ends with the
\* trigger text removed from the document and the bibliography file not
\* written.
C23_CancelRemovesTrigger ==
  (pc = "done" /\ outcome \in UserCancelled) =>
    /\ doc = "removed"
    /\ ~written
    /\ bibFile = fileBefore

\* ------------------------------------------------------------------------
\* C24
\* ------------------------------------------------------------------------

\* the picker request (zoteroApiClient.ts lines 112-180) has not resolved
PickerOutstanding ==
  pc = "invokePicker"

\* the availability requests that have not resolved: those of the status
\* bar manager and the one the workflow sends at extension.ts line 235
ConnectionChecksOutstanding ==
  monitorRequests + (IF pc = "checkAvailability" THEN 1 ELSE 0)

\* C24: the connection monitor prevents concurrent calls of the API: no
\* connection-check request is outstanding while the picker request is, and
\* no two connection-check requests are outstanding at once.
C24_NoConcurrentApiCalls ==
  /\ PickerOutstanding => ConnectionChecksOutstanding = 0
  /\ ConnectionChecksOutstanding <= 1

\* ------------------------------------------------------------------------
\* CitationInserter
\* ------------------------------------------------------------------------

\* the text \cite{
CiteOpen ==
  <<"\\", "c", "i", "t", "e", "{">>

\* the matches of /\\cite\{([^}]*)\}/g in the text of a line, from left to
\* right: open is the index of the backslash and close that of the brace
\* that ends the match, counted from 1
CiteMatchStep(text, st) ==
  IF st.done THEN st
  ELSE Let1(FirstIndex(st.at, Len(text), LAMBDA j : MatchAt(text, CiteOpen, j)),
            LAMBDA open :
    IF open > Len(text) THEN [st EXCEPT !.done = TRUE]
    ELSE Let1(SkipNotIn(text, open + 6, {"}"}), LAMBDA close :
      IF close > Len(text) THEN [st EXCEPT !.done = TRUE]
      ELSE [at |-> close + 1,
            matches |-> Append(st.matches, [open |-> open, close |-> close]),
            done |-> FALSE]))

CiteMatches(text) ==
  Repeat(LAMBDA st : CiteMatchStep(text, st),
         [at |-> 1, matches |-> <<>>, done |-> FALSE],
         Len(text) + 1).matches

\* String.prototype.split(',')
splitAtCommas(s) ==
  Let1(SelectSeq([i \in 1..Len(s) |-> i], LAMBDA i : s[i] = ","), LAMBDA cm :
    [k \in 1..(Len(cm) + 1) |->
       SubSeq(s, IF k = 1 THEN 1 ELSE cm[k - 1] + 1,
                 IF k <= Len(cm) THEN cm[k] - 1 ELSE Len(s))])

\* lines 27-33: the keys the command holds, those that contain zoteroCite
\* left out
ExistingCiteKeys(inner) ==
  IF Len(trim(inner)) = 0 THEN <<>>
  ELSE SelectSeq([i \in 1..Len(splitAtCommas(trim(inner))) |->
                    trim(splitAtCommas(trim(inner))[i])],
                 LAMBDA k : Len(k) > 0
                            /\ ~Occurs(<<"z", "o", "t", "e", "r", "o", "C",
                                         "i", "t", "e">>, k))

\* isInsideCiteCommand: character is the column of the position, counted
\* from 0 as vscode does; fullStart and fullEnd are the columns of fullRange
NotInsideCite ==
  [inside |-> FALSE, existingKeys |-> <<>>, fullStart |-> 0, fullEnd |-> 0]

isInsideCiteCommand(text, character) ==
  Let1(SelectSeq(CiteMatches(text),
                 LAMBDA m : character >= m.open + 5 /\ character <= m.close - 1),
       LAMBDA around :
    IF Len(around) = 0 THEN NotInsideCite
    ELSE [inside |-> TRUE,
          existingKeys |-> ExistingCiteKeys(SubSeq(text, around[1].open + 6,
                                                   around[1].close - 1)),
          fullStart |-> around[1].open - 1,
          fullEnd |-> around[1].close])

\* formatCitation
formatCitation(citeKeys) ==
  IF Len(citeKeys) = 0 THEN <<>>
  ELSE <<"\\", "c", "i", "t", "e", "{">> \o join(citeKeys, <<",">>) \o <<"}">>

\* Array.from(new Set(allKeys)): the first occurrence of each key, in order
UniqueKeys(allKeys) ==
  [j \in 1..Len(SelectSeq(Indices(Len(allKeys)),
                          LAMBDA i : \A h \in 1..(i - 1) : allKeys[h] # allKeys[i])) |->
     allKeys[SelectSeq(Indices(Len(allKeys)),
                       LAMBDA i : \A h \in 1..(i - 1) : allKeys[h] # allKeys[i])[j]]]

\* editBuilder.replace: the columns from, up to before upto, replaced
ReplaceColumns(text, from, upto, replacement) ==
  SubSeq(text, 1, from) \o replacement \o SubSeq(text, upto + 1, Len(text))

\* replaceTrigger, on the line of the trigger, which stands in the columns
\* from, up to before upto: the result of the call and the line after it;
\* editorActive says that the document is that of the active editor and
\* applied what editor.edit resolves with
replaceTrigger(text, from, upto, citeKeys, editorActive, applied) ==
  IF Len(citeKeys) = 0 \/ ~editorActive \/ ~applied
    THEN [success |-> FALSE, text |-> text]
  ELSE Let1(isInsideCiteCommand(text, from), LAMBDA citeContext :
    IF citeContext.inside
      THEN [success |-> TRUE,
            text |-> ReplaceColumns(text, citeContext.fullStart,
                                    citeContext.fullEnd,
                                    formatCitation(UniqueKeys(
                                      citeContext.existingKeys \o citeKeys)))]
      ELSE [success |-> TRUE,
            text |-> ReplaceColumns(text, from, upto, formatCitation(citeKeys))])

\* ------------------------------------------------------------------------
\* replaceTrigger called on its own, on one line that holds a trigger
\* ------------------------------------------------------------------------

\* the citation keys one call is given
MaxKeys == 2

\* the text \zoteroCite
TriggerText ==
  <<"\\", "z", "o", "t", "e", "r", "o", "C", "i", "t", "e">>

\* the citation keys a, b and k
KeyNames ==
  << <<"a">>, <<"b">>, <<"k">> >>

\* at most MaxKeys distinct citation keys, in any order
KeySeqs ==
  {[i \in 1..Len(q) |-> KeyNames[q[i]]] : q \in IndexSeqs(MaxKeys, Len(KeyNames))}

\* the lines that hold the trigger:
\*   \zoteroCite
\*   \cite{a,\zoteroCite}
\*   \cite{a\zoteroCite}
\*   \cite{a} \zoteroCite
\*   \cite{\zoteroCite}
\*   \cite{a, b,\zoteroCite}
\*   \cite{a}\zoteroCite\cite{b}
\*   \cite{b,\zoteroCite,a}
\*   x \zoteroCite y
\*   \zoteroCites \zoteroCite
InsertLines ==
  {
    <<"\\", "z", "o", "t", "e", "r", "o", "C", "i", "t", "e">>,
    <<"\\", "c", "i", "t", "e", "{", "a", ",", "\\", "z", "o", "t", "e",
      "r", "o", "C", "i", "t", "e", "}">>,
    <<"\\", "c", "i", "t", "e", "{", "a", "\\", "z", "o", "t", "e", "r",
      "o", "C", "i", "t", "e", "}">>,
    <<"\\", "c", "i", "t", "e", "{", "a", "}", " ", "\\", "z", "o", "t",
      "e", "r", "o", "C", "i", "t", "e">>,
    <<"\\", "c", "i", "t", "e", "{", "\\", "z", "o", "t", "e", "r", "o",
      "C", "i", "t", "e", "}">>,
    <<"\\", "c", "i", "t", "e", "{", "a", ",", " ", "b", ",", "\\", "z",
      "o", "t", "e", "r", "o", "C", "i", "t", "e", "}">>,
    <<"\\", "c", "i", "t", "e", "{", "a", "}", "\\", "z", "o", "t", "e",
      "r", "o", "C", "i", "t", "e", "\\", "c", "i", "t", "e", "{", "b",
      "}">>,
    <<"\\", "c", "i", "t", "e", "{", "b", ",", "\\", "z", "o", "t", "e",
      "r", "o", "C", "i", "t", "e", ",", "a", "}">>,
    <<"x", " ", "\\", "z", "o", "t", "e", "r", "o", "C", "i", "t", "e",
      " ", "y">>,
    <<"\\", "z", "o", "t", "e", "r", "o", "C", "i", "t", "e", "s", " ",
      "\\", "z", "o", "t", "e", "r", "o", "C", "i", "t", "e">>
  }

\* the word boundary \b that ends TRIGGER_PATTERN: the text \zoteroCite at
\* index j, whose last character is a word character, is followed by the
\* end of the text or by a character that is none
TriggerAt(text, j) ==
  /\ MatchAt(text, TriggerText, j)
  /\ \/ j + Len(TriggerText) > Len(text)
     \/ text[j + Len(TriggerText)] \notin WordChars

\* zoteroApiClient.ts lines 207 and 241-259: the column, counted from 0, of
\* the first match of /\\zoteroCite\b/ in the text before the cursor, the
\* cursor standing at the end of the line
TriggerColumn(text) ==
  FirstIndex(1, Len(text), LAMBDA j : TriggerAt(text, j)) - 1

InitInsert ==
  /\ WorkflowIdle
  /\ DetectorIdle
  /\ FunctionsIdle
  /\ MonitorIdle
  /\ docText \in InsertLines
  /\ triggerCol = TriggerColumn(docText)
  /\ pickedKeys \in KeySeqs
  /\ editResult = NoEdit
  /\ exportKeys = <<>>
  /\ batchAnswer = "none"
  /\ singleAnswer = <<>>
  /\ exportResult = NoExport
  /\ exportCall = NoExportCall
  /\ requestIdCounter = 0

\* replaceTrigger is called with the range of the trigger
ReplaceTriggerCall ==
  /\ editResult = NoEdit
  /\ docText # <<>>
  /\ \E editorActive \in BOOLEAN, applied \in BOOLEAN :
       editResult' = replaceTrigger(docText, triggerCol,
                                    triggerCol + Len(TriggerText), pickedKeys,
                                    editorActive, applied)
  /\ UNCHANGED <<workflowVars, detectorVars, functionVars>>
  /\ UNCHANGED <<isCheckingConnection, zoteroConnected, monitorRequests,
                 manualCheck, shownConnected, completedSince,
                 commandAwaiting, started, event>>
  /\ UNCHANGED <<docText, triggerCol, pickedKeys, exportKeys, batchAnswer,
                 singleAnswer, exportResult, exportCall, requestIdCounter>>

NextInsert ==
  ReplaceTriggerCall

SpecInsert ==
  InitInsert /\ [][NextInsert]_vars

\* ------------------------------------------------------------------------
\* C25
\* ------------------------------------------------------------------------

\* the index of the backslash of the \cite{ whose braces enclose the column,
\* 0 when the column is enclosed by none: the command opens before the
\* column, no closing brace stands between its opening brace and the
\* column, and a closing brace follows
EnclosingCite(text, col) ==
  LET opens == {j \in 1..Len(text) :
                  /\ MatchAt(text, CiteOpen, j)
                  /\ j + 5 <= col
                  /\ \A h \in (j + 6)..col : text[h] # "}"
                  /\ \E h \in (col + 1)..Len(text) : text[h] = "}"}
  IN IF opens = {} THEN 0 ELSE CHOOSE j \in opens : TRUE

\* the text with the trigger, which starts at the column, taken out
WithoutTrigger(text, col) ==
  SubSeq(text, 1, col) \o SubSeq(text, col + Len(TriggerText) + 1, Len(text))

\* the keys written between the braces: the pieces between the commas,
\* without the white space around them, the empty pieces left out
WrittenKeys(inner) ==
  SelectSeq([i \in 1..Len(splitAtCommas(inner)) |-> trim(splitAtCommas(inner)[i])],
            LAMBDA k : Len(k) > 0)

\* the keys in their order, each at its first place only
EachOnce(allKeys) ==
  FoldRange(LAMBDA k, sofar : IF \E i \in 1..Len(sofar) : sofar[i] = k
                                THEN sofar ELSE Append(sofar, k),
            <<>>, allKeys, 1, Len(allKeys))

\* the line the claim expects after the trigger at the column was replaced
\* by the keys
ExpectedLine(text, col, newKeys) ==
  LET open == EnclosingCite(text, col)
      rest == WithoutTrigger(text, col)
      close == SkipNotIn(rest, open + 6, {"}"})
  IN IF open = 0
       THEN SubSeq(text, 1, col) \o CiteOpen \o join(newKeys, <<",">>)
              \o <<"}">> \o SubSeq(text, col + Len(TriggerText) + 1, Len(text))
       ELSE SubSeq(rest, 1, open - 1) \o CiteOpen
              \o join(EachOnce(WrittenKeys(SubSeq(rest, open + 6, close - 1))
                               \o newKeys), <<",">>)
              \o <<"}">> \o SubSeq(rest, close + 1, Len(rest))

\* C25: when the trigger stands inside an existing \cite{...}, replaceTrigger
\* rewrites that command as one \cite{...} that holds the existing keys in
\* their order followed by the new keys, each key once, without the trigger
\* text and without a nested \cite; otherwise it replaces the range of the
\* trigger alone by \cite{key1,key2,...}.
C25_ReplaceTriggerAppendsKeys ==
  editResult.success =>
    editResult.text = ExpectedLine(docText, triggerCol, pickedKeys)

\* ------------------------------------------------------------------------
\* ZoteroAPIClient.exportBibTeX called on its own
\* ------------------------------------------------------------------------

\* the entry Better BibTeX exports for a citation key
EntryOf(citeKey) ==
  <<"@", "a", "{">> \o citeKey \o <<",", "}">>

\* the answers of Better BibTeX to item.export: to the request for all the
\* keys, and to the request for one key
BatchAnswers ==
  {"resolved", "not found", "other error"}

SingleAnswers ==
  {"entry", "blank", "rejected"}

\* the requests of other callers that the client serves during one call of
\* exportBibTeX
MaxOtherRequests == 1

\* The repository holds two copies of ZoteroAPIClient.exportBibTeX.  Both
\* await makeRequest: a call sends a request and returns to the event loop,
\* and goes on when the request is answered.  What a call returns is
\* recorded with the requests it has sent (resolved is FALSE when it throws).

\* exportBibTeX of src/src/zoteroApiClient.ts, lines 185-196, the module that
\* extension.ts imports: an empty list returns '' before any request;
\* otherwise one request for all the keys, whose answer is returned, and
\* whose rejection, whatever its message, is thrown on
exportBibTeX(citeKeys, batch) ==
  IF Len(citeKeys) = 0
    THEN [resolved |-> TRUE, text |-> <<>>, requests |-> 0]
  ELSE IF batch = "resolved"
    THEN [resolved |-> TRUE,
          text |-> join([i \in 1..Len(citeKeys) |-> EntryOf(citeKeys[i])], <<"\n">>),
          requests |-> 1]
  ELSE [resolved |-> FALSE, text |-> <<>>, requests |-> 1]

InitExport ==
  /\ WorkflowIdle
  /\ DetectorIdle
  /\ FunctionsIdle
  /\ MonitorIdle
  /\ docText = <<>>
  /\ triggerCol = 0
  /\ pickedKeys = <<>>
  /\ editResult = NoEdit
  /\ exportKeys \in KeySeqs
  /\ batchAnswer \in BatchAnswers
  /\ singleAnswer \in [{KeyNames[i] : i \in 1..Len(KeyNames)} -> SingleAnswers]
  /\ exportResult = NoExport
  /\ exportCall = NoExportCall
  /\ requestIdCounter = 0

\* what no step of a call of exportBibTeX changes
ExportFrame ==
  /\ UNCHANGED <<workflowVars, detectorVars, functionVars>>
  /\ UNCHANGED <<isCheckingConnection, zoteroConnected, monitorRequests,
                 manualCheck, shownConnected, completedSince,
                 commandAwaiting, started, event>>
  /\ UNCHANGED <<docText, triggerCol, pickedKeys, editResult, exportKeys,
                 batchAnswer, singleAnswer>>

\* no call of exportBibTeX has been made
NotCalled ==
  /\ exportResult = NoExport
  /\ exportCall = NoExportCall
  /\ batchAnswer # "none"

\* makeRequest, lines 26-27: the request takes the next id of the client
SendsRequest ==
  requestIdCounter' = requestIdCounter + 1

\* src/src/zoteroApiClient.ts lines 185-190: exportBibTeX is called; it
\* returns '' for an empty list, and otherwise sends the request for all the
\* keys and awaits it
ExportBibTeXCall ==
  /\ NotCalled
  /\ IF Len(exportKeys) = 0
       THEN /\ exportResult' = exportBibTeX(exportKeys, batchAnswer)
            /\ UNCHANGED <<exportCall, requestIdCounter>>
       ELSE /\ exportCall' = [NoExportCall EXCEPT !.awaits = "all keys",
                                                  !.requests = 1]
            /\ SendsRequest
            /\ UNCHANGED exportResult
  /\ ExportFrame

\* src/src/zoteroApiClient.ts lines 190-195: the request is answered; its
\* answer is returned, its rejection thrown on
ExportBibTeXAnswered ==
  /\ exportCall.awaits = "all keys"
  /\ exportResult' = exportBibTeX(exportKeys, batchAnswer)
  /\ exportCall' = NoExportCall
  /\ UNCHANGED requestIdCounter
  /\ ExportFrame

\* part_005 lines 206-212: exportBibTeX of part_005 is called; it returns ''
\* for an empty list, and otherwise sends the request for all the keys and
\* awaits it
ExportBibTeXWithFallbackCall ==
  /\ NotCalled
  /\ IF Len(exportKeys) = 0
       THEN /\ exportResult' = [resolved |-> TRUE, text |-> <<>>, requests |-> 0]
            /\ UNCHANGED <<exportCall, requestIdCounter>>
       ELSE /\ exportCall' = [NoExportCall EXCEPT !.awaits = "all keys, then each",
                                                  !.requests = 1]
            /\ SendsRequest
            /\ UNCHANGED exportResult
  /\ ExportFrame

\* part_005 lines 212-225 and 244: the request for all the keys is answered;
\* its answer is returned; after a rejection whose message includes 'not
\* found' the request for the first key is sent and awaited; any other
\* rejection is thrown on
ExportBibTeXWithFallbackAnswered ==
  /\ exportCall.awaits = "all keys, then each"
  /\ CASE batchAnswer = "resolved" ->
            /\ exportResult' =
                 [resolved |-> TRUE,
                  text |-> join([i \in 1..Len(exportKeys) |-> EntryOf(exportKeys[i])],
                                <<"\n">>),
                  requests |-> exportCall.requests]
            /\ exportCall' = NoExportCall
            /\ UNCHANGED requestIdCounter
       [] batchAnswer = "not found" ->
            /\ exportCall' = [awaits |-> "one key", index |-> 1,
                              validEntries |-> <<>>,
                              requests |-> exportCall.requests + 1]
            /\ SendsRequest
            /\ UNCHANGED exportResult
       [] OTHER ->
            /\ exportResult' = [resolved |-> FALSE, text |-> <<>>,
                                requests |-> exportCall.requests]
            /\ exportCall' = NoExportCall
            /\ UNCHANGED requestIdCounter
  /\ ExportFrame

\* part_005 lines 223-244: the request for one key is answered; a non-blank
\* answer is collected, a blank answer and a rejection are not; then the
\* request for the next key is sent and awaited, or, after the last key, the
\* entries collected are returned, joined by a blank line, and the error is
\* thrown when none was collected
ExportBibTeXWithFallbackKeyAnswered ==
  /\ exportCall.awaits = "one key"
  /\ \E validEntries \in
         {IF singleAnswer[exportKeys[exportCall.index]] = "entry"
            THEN Append(exportCall.validEntries,
                        EntryOf(exportKeys[exportCall.index]))
            ELSE exportCall.validEntries} :
       IF exportCall.index < Len(exportKeys)
         THEN /\ exportCall' = [awaits |-> "one key",
                                index |-> exportCall.index + 1,
                                validEntries |-> validEntries,
                                requests |-> exportCall.requests + 1]
              /\ SendsRequest
              /\ UNCHANGED exportResult
         ELSE /\ exportResult' =
                   IF Len(validEntries) > 0
                     THEN [resolved |-> TRUE, text |-> join(validEntries, NLNL),
                           requests |-> exportCall.requests]
                     ELSE [resolved |-> FALSE, text |-> <<>>,
                           requests |-> exportCall.requests]
              /\ exportCall' = NoExportCall
              /\ UNCHANGED requestIdCounter
  /\ ExportFrame

\* the requests the call of exportBibTeX has sent
ExportRequests ==
  exportCall.requests + exportResult.requests

\* lines 98-101: while the call of exportBibTeX awaits a request, another
\* callback calls checkAvailability on the same client, as the timer of the
\* status bar manager does; its request takes the next id
CheckAvailabilityCall ==
  /\ exportCall # NoExportCall
  /\ requestIdCounter - ExportRequests < MaxOtherRequests
  /\ SendsRequest
  /\ UNCHANGED <<exportResult, exportCall>>
  /\ ExportFrame

NextExport ==
  \/ ExportBibTeXCall
  \/ ExportBibTeXAnswered
  \/ ExportBibTeXWithFallbackCall
  \/ ExportBibTeXWithFallbackAnswered
  \/ ExportBibTeXWithFallbackKeyAnswered
  \/ CheckAvailabilityCall

SpecExport ==
  InitExport /\ [][NextExport]_vars

\* ------------------------------------------------------------------------
\* C26
\* ------------------------------------------------------------------------

\* the requested keys whose own export resolves with an entry, in the order
\* of the request
ExportableKeys ==
  SelectSeq(exportKeys, LAMBDA k : singleAnswer[k] = "entry")

\* exportBibTeX has returned or thrown
ExportCalled ==
  exportResult # NoExport

\* C26: exportBibTeX skips invalid keys: when the export of all the keys
\* fails because a key is not found, it exports the keys one at a time and
\* returns the entries of exactly the keys whose export yields an entry, in
\* the order of the request, and it fails only when no requested key yields
\* one; for an empty list of keys it returns the empty text without sending
\* a request.
C26_ExportSkipsInvalidKeys ==
  ExportCalled =>
    /\ exportKeys = <<>> =>
         /\ exportResult.resolved
         /\ exportResult.text = <<>>
         /\ exportResult.requests = 0
    /\ (exportKeys # <<>> /\ batchAnswer = "not found") =>
         /\ exportResult.requests = 1 + Len(exportKeys)
         /\ exportResult.resolved = (ExportableKeys # <<>>)
         /\ exportResult.resolved =>
              exportResult.text =
                join([i \in 1..Len(ExportableKeys) |-> EntryOf(ExportableKeys[i])],
                     NLNL)

\* ------------------------------------------------------------------------
\* C27
\* ------------------------------------------------------------------------

\* the timer called checkZoteroConnection, which sent no request
CheckSkipped ==
  /\ event' # event
  /\ event'.kind = "check skipped"

\* C27: whenever no workflow is running, isProcessingTrigger and pickerInUse
\* are both clear: every way a workflow can end releases both.  So a trigger
\* that arrives when no workflow is running is processed, and a periodic
\* check is skipped only while the picker request or a request of the
\* status bar manager is outstanding.
C27_LocksReleased ==
  /\ [](~InProgress => (~isProcessingTrigger /\ ~pickerInUse))
  /\ [][(TriggerStep /\ ~InProgress) =>
          (event'.kind = "trigger accepted" /\ pc' = "checkAvailability")]_vars
  /\ [][CheckSkipped => (PickerOutstanding \/ monitorRequests > 0)]_vars

\* a first workflow has ended and the trigger that arrived after it has
\* started the second
C27_Witness ==
  /\ started = 2
  /\ event.kind = "trigger accepted"
  /\ pc = "checkAvailability"
  /\ isProcessingTrigger

\* ------------------------------------------------------------------------
\* C28
\* ------------------------------------------------------------------------

\* the record has a year field
HasYear(r) ==
  FYear \in DOMAIN r.fields

\* C28: compareEntries reports an author-year match only between two records
\* that both have a year field; two records that both lack the year are never
\* reported as an author-year match.
C28_AuthorYearNeedsYears ==
  (called = "compareEntries" /\ match.matchType = "author-year") =>
    (HasYear(newEntry) /\ HasYear(existingEntry))

\* ------------------------------------------------------------------------
\* C29
\* ------------------------------------------------------------------------

\* the workflow awaits the read or a write of the .bib file
AwaitsFile ==
  pc \in {"readFile", "appendEntries", "writeFile"}

\* C29: with auto-append enabled the citation is inserted only after the
\* update of the .bib file has completed: once a read of the file has
\* failed the document stays as it was, the trigger in its place, and the
\* workflow ends with the error reported; when a write of the file fails,
\* the error is reported (logged, and shown unless it is taken for a
\* cancellation) and the workflow ends with the document and the file as
\* they were, and no citation is inserted later; the citation is in the
\* document only once the workflow has ended with it inserted; a workflow
\* that has called writeFile and inserted the citation has changed the
\* file; and the file is never written once the trigger has been replaced.
C29_FileUpdatedBeforeCitation ==
  /\ [](readFailed => doc = "trigger")
  /\ []((readFailed /\ pc = "done") => outcome = "error")
  /\ [][(AwaitsFile /\ outcome' = "error") =>
          (/\ pc' \in {"showErrorMessage", "done"}
           /\ doc' = doc
           /\ doc = "trigger"
           /\ bibFile' = bibFile)]_vars
  /\ [][pc = "showErrorMessage" =>
          (pc' \in {"showErrorMessage", "done"} /\ doc' = doc
             /\ bibFile' = bibFile)]_vars
  /\ [](outcome = "error" => doc # "cite")
  /\ [](doc = "cite" => (pc = "done" /\ outcome = "inserted"))
  /\ []((doc = "cite" /\ written) => bibFile # fileBefore)
  /\ [][bibFile' # bibFile => (doc = "trigger" /\ doc' = "trigger")]_vars

\* ------------------------------------------------------------------------
\* C30
\* ------------------------------------------------------------------------

\* C30: the result the manual connection check shows is the outcome of an
\* availability request that completed after the command was invoked, never
\* a status left from before, also when the command is invoked while a
\* periodic check is in flight or while the picker is in use.
C30_ManualCheckIsFresh ==
  manualCheck = "shown" => completedSince

====
